---- MODULE Spec2Model ----
(***************************************************************************)
(* Session completion and order aggregation of the cargosynq ingestor.     *)
(* The records table and the orders table are maps; every await of a       *)
(* handler is one atomic step.  Reads see the latest write, except in      *)
(* SpecStale, where the queries of the order processor read a replica.     *)
(***************************************************************************)
EXTENDS Integers, Sequences, FiniteSets, TLC

VARIABLES objects, extractor, records, orders, now, tasks,
          queue, replica, analyzer

vars == <<objects, extractor, records, orders, now, tasks,
          queue, replica, analyzer>>

(***************************************************************************)
(* Bounds of the model.                                                    *)
(***************************************************************************)
MaxRecords == 3
MaxEmails == 2
MaxCount == 2
MaxAttachments == 2
MaxClock == 2
MaxQueue == 2

Sessions == {"s1", "s2"}
Tasks == {"t1", "t2"}
RecordIds == 1..MaxRecords

(***************************************************************************)
(* A field that is not set on an item (undefined in the handler).          *)
(***************************************************************************)
AbsentStr == "<absent>"
AbsentNum == -1

NoOrder == [sessionId |-> "<none>"]

(***************************************************************************)
(* JavaScript truthiness of an optional string / optional number.          *)
(***************************************************************************)
TruthyStr(s) == s # AbsentStr /\ s # ""
TruthyNum(n) == n # AbsentNum /\ n # 0

(***************************************************************************)
(* DynamoDBRecord: the fields of an item of the records table that the     *)
(* order processor reads.                                                  *)
(***************************************************************************)
DynamoDBRecord(id, s, ft, ac, pac, sum, txt, eid, subj, body) ==
    [id |-> id, sessionId |-> s, fileType |-> ft,
     attachmentCount |-> ac, pdfAttachmentCount |-> pac,
     aiSummary |-> sum, textContent |-> txt, emlRecordId |-> eid,
     subject |-> subj, bodyText |-> body]

(***************************************************************************)
(* extractCSID: the uuid of the first #CSID:uuid# tag of the subject, else *)
(* of the body, else null.  The texts of the model that carry a tag carry  *)
(* the tag of SampleCsid.                                                  *)
(***************************************************************************)
SampleCsid == "123e4567-e89b-42d3-a456-426614174000"

CsidTag == "#CSID:" \o SampleCsid \o "#"

TaggedTexts == {"PO 7 " \o CsidTag, "ready " \o CsidTag}

CsidMatch(text) == IF text \in TaggedTexts THEN SampleCsid ELSE AbsentStr

extractCSID(subject, bodyText) ==
    IF CsidMatch(subject) # AbsentStr THEN CsidMatch(subject)
    ELSE CsidMatch(bodyText)

\* the csid attribute of an item: eml-processor stores the csid it extracts
\* from the subject and the body that it stores in the same item, and no
\* other handler stores a csid
RecordCsid(record) ==
    IF record.fileType = "eml"
    THEN extractCSID(record.subject, record.bodyText)
    ELSE AbsentStr

(***************************************************************************)
(* Items of a Query on the records table: the items of the partition       *)
(* sessionId, in ascending order of the sort key id.  Ids are              *)
(* `<prefix>-<Date.now()>-<random>`: the prefix (attachment < eml < pdf)   *)
(* orders first, the creation stamp second.                                *)
(***************************************************************************)
PrefixRank(r) ==
    IF r.fileType = "eml" THEN 1 ELSE IF r.fileType = "pdf" THEN 2 ELSE 0

SortKey(r) == PrefixRank(r) * (MaxRecords + 1) + r.id

\* variant: the items come in descending order of the sort key
RECURSIVE SortBySortKeyDescending(_)
SortBySortKeyDescending(S) ==
    IF S = {} THEN <<>>
    ELSE LET m == CHOOSE x \in S : \A y \in S : SortKey(x) >= SortKey(y)
         IN <<m>> \o SortBySortKeyDescending(S \ {m})

RECURSIVE SortBySortKey(_)
SortBySortKey(S) ==
    IF S = {} THEN <<>>
    ELSE LET m == CHOOSE x \in S : \A y \in S : SortKey(x) <= SortKey(y)
         IN <<m>> \o SortBySortKey(S \ {m})

\* variant: a scan of the table, which returns the items of every session
QueryItemsScan(tbl, s) == SortBySortKey({tbl[i] : i \in DOMAIN tbl})

QueryItems(tbl, s) ==
    SortBySortKey({tbl[i] : i \in {j \in DOMAIN tbl : tbl[j].sessionId = s}})

(***************************************************************************)
(* Array helpers.                                                          *)
(***************************************************************************)
Every(seq, P(_)) == \A i \in 1..Len(seq) : P(seq[i])

IsEml(r) == r.fileType = "eml"
IsPdf(r) == r.fileType = "pdf"

\* variant: a text that is present counts, even when it is empty
PdfProcessedPresent(pdf) == pdf.textContent # AbsentStr

\* variant: the text stored for a pdf that could not be parsed does not count
PdfProcessedParsed(pdf) ==
    /\ TruthyStr(pdf.textContent)
    /\ Len(pdf.textContent) > 0
    /\ pdf.textContent # "PDF content extraction failed"

PdfProcessed(pdf) == TruthyStr(pdf.textContent) /\ Len(pdf.textContent) > 0
EmlSummarized(eml) == TruthyStr(eml.aiSummary) /\ Len(eml.aiSummary) > 0

(***************************************************************************)
(* Rule 2 per-email condition.                                             *)
(***************************************************************************)
\* variant: a count that is absent passes like a count of zero
EmlNoPdfProcessedLoose(eml) ==
    /\ EmlSummarized(eml)
    /\ ~TruthyNum(eml.pdfAttachmentCount)

\* variant: the attachment count is tested for falsiness, not for zero
EmlNoPdfProcessedFalsy(eml) ==
    /\ EmlSummarized(eml)
    /\ (~TruthyNum(eml.attachmentCount) \/ eml.pdfAttachmentCount = 0)

EmlNoPdfProcessed(eml) ==
    /\ EmlSummarized(eml)
    /\ (eml.attachmentCount = 0 \/ eml.pdfAttachmentCount = 0)

(***************************************************************************)
(* Rule 3: the count of pdf items that name the email as their parent.     *)
(***************************************************************************)
RelatedPdfs(pdfRecords, eml) ==
    SelectSeq(pdfRecords, LAMBDA pdf : pdf.emlRecordId = eml.id)

\* variant: at least the declared number of pdf items
AttachmentCountsMatchAtLeast(emlRecords, pdfRecords) ==
    \A i \in 1..Len(emlRecords) :
        (TruthyNum(emlRecords[i].pdfAttachmentCount)
            /\ emlRecords[i].pdfAttachmentCount > 0)
        => Len(RelatedPdfs(pdfRecords, emlRecords[i]))
               >= emlRecords[i].pdfAttachmentCount

\* variant: at most the declared number of pdf items
AttachmentCountsMatchAtMost(emlRecords, pdfRecords) ==
    \A i \in 1..Len(emlRecords) :
        (TruthyNum(emlRecords[i].pdfAttachmentCount)
            /\ emlRecords[i].pdfAttachmentCount > 0)
        => Len(RelatedPdfs(pdfRecords, emlRecords[i]))
               <= emlRecords[i].pdfAttachmentCount

AttachmentCountsMatch(emlRecords, pdfRecords) ==
    \A i \in 1..Len(emlRecords) :
        (TruthyNum(emlRecords[i].pdfAttachmentCount)
            /\ emlRecords[i].pdfAttachmentCount > 0)
        => Len(RelatedPdfs(pdfRecords, emlRecords[i]))
               = emlRecords[i].pdfAttachmentCount

(***************************************************************************)
(* Rule 1, the direct-upload branch.                                       *)
(***************************************************************************)
\* variant: some instead of every
AllPdfsProcessedSome(pdfRecords) ==
    \E i \in 1..Len(pdfRecords) : PdfProcessed(pdfRecords[i])

AllPdfsProcessed(pdfRecords) == Every(pdfRecords, PdfProcessed)

(***************************************************************************)
(* The value returned when no rule applies.                                *)
(***************************************************************************)
\* variant: the fall-through answers true
NoRuleResultTrue == TRUE

NoRuleResult == FALSE

(***************************************************************************)
(* The rule table of checkProcessingCompletion over the queried items.     *)
(***************************************************************************)
IsSessionComplete(items) ==
    LET emlRecords == SelectSeq(items, IsEml)
        pdfRecords == SelectSeq(items, IsPdf)
    IN  IF Len(items) = 0 THEN NoRuleResult
        ELSE IF Len(emlRecords) = 0 /\ Len(pdfRecords) > 0
             THEN AllPdfsProcessed(pdfRecords)
        ELSE IF Len(emlRecords) > 0 /\ Len(pdfRecords) = 0
             THEN Every(emlRecords, EmlNoPdfProcessed)
        ELSE IF Len(emlRecords) > 0 /\ Len(pdfRecords) > 0
             THEN /\ Every(emlRecords, EmlSummarized)
                  /\ AllPdfsProcessed(pdfRecords)
                  /\ AttachmentCountsMatch(emlRecords, pdfRecords)
        ELSE NoRuleResult

(***************************************************************************)
(* checkProcessingCompletion: the query, then the rules; a failed query is *)
(* caught and answered false.                                              *)
(***************************************************************************)
\* variant: a failed query is answered true
checkProcessingCompletionTrueOnError(tbl, s, queryOk) ==
    IF queryOk THEN IsSessionComplete(QueryItems(tbl, s)) ELSE TRUE

checkProcessingCompletion(tbl, s, queryOk) ==
    IF queryOk THEN IsSessionComplete(QueryItems(tbl, s)) ELSE FALSE

(***************************************************************************)
(* createOrder: the compiled content.  One labelled segment per truthy     *)
(* field, in the order of the queried items.                               *)
(***************************************************************************)
Segment(label, text) ==
    "--- Segment type: " \o label \o " ---\n" \o text \o "\n\n"

RecordSegments(record) ==
    (IF TruthyStr(record.subject)
        THEN Segment("mailsubject", record.subject) ELSE "")
    \o (IF TruthyStr(record.bodyText)
        THEN Segment("mailbody", record.bodyText) ELSE "")
    \o (IF TruthyStr(record.textContent)
        THEN Segment("pdftextparse", record.textContent) ELSE "")

\* createOrder: the csid of the order.  It starts empty and the loop over
\* the items does not assign it.
\* variant: the loop takes the csid of the items that have one
RECURSIVE CreateOrderCsidOfRecords(_)
CreateOrderCsidOfRecords(items) ==
    IF items = <<>> THEN ""
    ELSE IF TruthyStr(RecordCsid(items[Len(items)]))
         THEN RecordCsid(items[Len(items)])
         ELSE CreateOrderCsidOfRecords(SubSeq(items, 1, Len(items) - 1))

CreateOrderCsid(items) == ""

RECURSIVE Compile(_)
Compile(items) ==
    IF items = <<>> THEN ""
    ELSE RecordSegments(Head(items)) \o Compile(Tail(items))

(***************************************************************************)
(* !combinedContent.trim(): every segment carries its label, so the        *)
(* trimmed content is empty exactly when no segment was appended.          *)
(***************************************************************************)
\* variant: the content is never taken for blank
ContentIsBlankNever(combinedContent) == FALSE

ContentIsBlank(combinedContent) == combinedContent = ""

(***************************************************************************)
(* extractOrderData.  The reply of the completion call is either an error  *)
(* (request failure, timeout, missing credential) or a message content: a  *)
(* sequence of tokens, or no content at all.                               *)
(***************************************************************************)
WS == " "
FenceJson == "<fence>json"
Fence == "<fence>"
JsonTexts == {"{A}"}

EmptyObject == [poNumber |-> AbsentStr]
ParsedObject(tok) == [poNumber |-> tok]

NoContent == <<"<null>">>

Responses ==
    { [error |-> TRUE,  content |-> NoContent],
      [error |-> FALSE, content |-> NoContent],
      [error |-> FALSE, content |-> <<>>],
      [error |-> FALSE, content |-> <<"{A}">>],
      [error |-> FALSE, content |-> <<WS, "{A}", WS>>],
      [error |-> FALSE, content |-> <<FenceJson, WS, "{A}", WS, Fence>>],
      [error |-> FALSE, content |-> <<Fence, "{A}", Fence>>],
      [error |-> FALSE, content |-> <<"text">>],
      [error |-> FALSE, content |-> <<FenceJson, "text", Fence>>],
      [error |-> FALSE, content |-> <<"{A}", "text">>] }

RECURSIVE TrimStart(_)
TrimStart(toks) ==
    IF toks # <<>> /\ Head(toks) = WS THEN TrimStart(Tail(toks)) ELSE toks

RECURSIVE TrimEnd(_)
TrimEnd(toks) ==
    IF toks # <<>> /\ toks[Len(toks)] = WS
    THEN TrimEnd(SubSeq(toks, 1, Len(toks) - 1)) ELSE toks

Trim(toks) == TrimEnd(TrimStart(toks))

\* the removal of the leading fence and of the whitespace after it, on a
\* content that starts with a fence
StripLeadingFence(toks) == TrimStart(Tail(toks))

\* the removal of a closing fence at the very end and of the whitespace
\* before it
StripTrailingFence(toks) ==
    IF toks # <<>> /\ toks[Len(toks)] = Fence
    THEN TrimEnd(SubSeq(toks, 1, Len(toks) - 1)) ELSE toks

CleanedContent(content_text) ==
    LET trimmed == Trim(content_text)
    IN  IF trimmed # <<>> /\ Head(trimmed) \in {FenceJson, Fence}
        THEN StripTrailingFence(StripLeadingFence(trimmed))
        ELSE trimmed

\* JSON.parse accepts one value between optional whitespace
JsonParses(toks) == Len(Trim(toks)) = 1 /\ Trim(toks)[1] \in JsonTexts
JsonParse(toks) == ParsedObject(Trim(toks)[1])

ExtractionFails(response) ==
    \/ response.error
    \/ response.content = NoContent
    \/ response.content = <<>>
    \/ ~JsonParses(CleanedContent(response.content))

extractOrderData(response) ==
    IF ExtractionFails(response) THEN EmptyObject
    ELSE JsonParse(CleanedContent(response.content))

(***************************************************************************)
(* The order item createOrder builds.                                      *)
(***************************************************************************)
OrderRecord(sessionId, csid, createdAt, recordCount, orderData) ==
    [sessionId |-> sessionId,
     csid |-> IF TruthyStr(csid) THEN csid ELSE "unknown",
     createdAt |-> createdAt,
     processingStatus |-> "completed", recordCount |-> recordCount,
     extractedData |-> orderData]

(***************************************************************************)
(* One invocation of the order processor on one trigger.                   *)
(***************************************************************************)
IdleTask ==
    [pc |-> "idle", sessionId |-> "<none>", isComplete |-> FALSE,
     combinedContent |-> "", recordCount |-> 0, csid |-> "",
     extraction |-> "none", orderRecord |-> NoOrder,
     outcome |-> "none", reason |-> "none", puts |-> 0, lateStart |-> FALSE,
     existedAtStart |-> FALSE, raised |-> FALSE, checkedCount |-> 0,
     recordId |-> 0, fileType |-> "<none>"]

\* handler: the catch around one item logs the error and goes on to the next
\* item; nothing is thrown out of the handler
\* variant: the catch throws the error of a failed item again
HandlerRethrowsFailed(outcome) == outcome = "Failed"

\* variant: an item that is skipped ends the handler with an error
HandlerRethrowsSkipped(outcome) == outcome = "Skipped"

HandlerRethrows(outcome) == FALSE

\* variant: an item that failed is taken up again from the readiness check
DoneRetrying(t, outcome, reason) ==
    IF outcome = "Failed"
    THEN [tasks EXCEPT ![t].pc = "check"]
    ELSE [tasks EXCEPT ![t] = [@ EXCEPT !.pc = "done", !.outcome = outcome,
                                        !.reason = reason,
                                        !.combinedContent = "",
                                        !.recordCount = 0,
                                        !.csid = "",
                                        !.checkedCount = 0,
                                        !.recordId = 0,
                                        !.fileType = "<none>",
                                        !.orderRecord = NoOrder]]

Done(t, outcome, reason) ==
    [tasks EXCEPT ![t] = [@ EXCEPT !.pc = "done", !.outcome = outcome,
                                   !.reason = reason,
                                   !.raised = HandlerRethrows(outcome),
                                   !.combinedContent = "",
                                   !.recordCount = 0,
                                   !.csid = "",
                                   !.checkedCount = 0,
                                   !.recordId = 0,
                                   !.fileType = "<none>",
                                   !.orderRecord = NoOrder]]

\* the stream rules forward inserts of eml and pdf items and summary updates
Triggers(tbl) == {i \in DOMAIN tbl : tbl[i].fileType \in {"eml", "pdf"}}

\* handler: the envelope is decoded (the sessionId, the id and the fileType
\* of the NewImage) and checkProcessingCompletion is called
\* invocations are interchangeable: they are numbered in the order in which
\* they start
Earlier(t) == IF t = "t2" THEN {"t1"} ELSE {}

ReceiveTrigger(t, sessionId, recordId, fileType) ==
    /\ tasks[t].pc = "idle"
    /\ \A u \in Earlier(t) : tasks[u].pc # "idle"
    /\ tasks' = [tasks EXCEPT ![t] =
                   [@ EXCEPT !.pc = "check",
                             !.sessionId = sessionId,
                             !.recordId = recordId,
                             !.fileType = fileType,
                             !.lateStart =
                                 \E u \in Tasks :
                                    /\ tasks[u].outcome = "Created"
                                    /\ tasks[u].sessionId = sessionId,
                             !.existedAtStart = orders[sessionId] # NoOrder]]
    /\ UNCHANGED <<objects, extractor, records, orders, now>>
    /\ UNCHANGED <<queue, replica, analyzer>>

\* handler: createOrder is called exactly when the check answered true
\* variant: createOrder is called whatever the check answered
HandlerCreatesAlways(isComplete) == TRUE

HandlerCreates(isComplete) == isComplete

\* the call of checkProcessingCompletion by the handler: the id and the
\* fileType of the trigger are passed and not read
\* variant: the rules are evaluated for the trigger of a pdf item only
CheckForPdfTrigger(tbl, sessionId, triggerRecordId, triggerFileType, queryOk) ==
    /\ triggerFileType = "pdf"
    /\ checkProcessingCompletion(tbl, sessionId, queryOk)

CheckForTrigger(tbl, sessionId, triggerRecordId, triggerFileType, queryOk) ==
    checkProcessingCompletion(tbl, sessionId, queryOk)

\* checkProcessingCompletion returns; the handler branches on its answer
\* (tbl is the view of the records table that the query reads; checkedCount
\* is the number of items that the query returned)
CheckCompletionOn(t, tbl) ==
    /\ tasks[t].pc = "check"
    /\ \E queryOk \in BOOLEAN :
         LET isComplete ==
                 CheckForTrigger(tbl, tasks[t].sessionId, tasks[t].recordId,
                                 tasks[t].fileType, queryOk)
         IN  tasks' =
                 IF HandlerCreates(isComplete)
                 THEN [tasks EXCEPT ![t] =
                         [@ EXCEPT !.pc = "get",
                                   !.isComplete = isComplete,
                                   !.checkedCount =
                                       Len(QueryItems(tbl, tasks[t].sessionId))]]
                 ELSE [Done(t, "NotReady",
                            IF queryOk THEN "none" ELSE "check error")
                          EXCEPT ![t].isComplete = isComplete]
    /\ UNCHANGED <<objects, extractor, records, orders, now>>
    /\ UNCHANGED <<queue, replica, analyzer>>

CheckCompletion(t) == CheckCompletionOn(t, records)

\* createOrder: the existence check on the orders table (createOrder gets
\* the sessionId only: the id and the fileType of the trigger are kept up to
\* this step and dropped after it)
\* variant: the existence check is skipped
OrderExistsNever(item) == FALSE

\* variant: an order without extracted data counts as missing
OrderExistsWithData(item) ==
    item # NoOrder /\ item.extractedData # EmptyObject

OrderExists(item) == item # NoOrder

GetOrder(t) ==
    /\ tasks[t].pc = "get"
    /\ \E getOk \in BOOLEAN :
         tasks' =
             IF ~getOk THEN Done(t, "Failed", "store")
             ELSE IF OrderExists(orders[tasks[t].sessionId])
                  THEN Done(t, "AlreadyExists", "none")
             ELSE [tasks EXCEPT ![t] = [@ EXCEPT !.pc = "query",
                                                 !.recordId = 0,
                                                 !.fileType = "<none>"]]
    /\ UNCHANGED <<objects, extractor, records, orders, now>>
    /\ UNCHANGED <<queue, replica, analyzer>>

\* createOrder: the second query and the compilation of the content
QueryAndCompileOn(t, tbl) ==
    /\ tasks[t].pc = "query"
    /\ \E queryOk \in BOOLEAN :
         LET items == QueryItems(tbl, tasks[t].sessionId)
             combinedContent == Compile(items)
         IN  tasks' =
                 IF ~queryOk THEN Done(t, "Failed", "store")
                 ELSE IF ContentIsBlank(combinedContent)
                      THEN Done(t, "Failed", "no content")
                 ELSE [tasks EXCEPT ![t] =
                         [@ EXCEPT !.pc = "extract",
                                   !.combinedContent = combinedContent,
                                   !.recordCount = Len(items),
                                   !.csid = CreateOrderCsid(items),
                                   !.checkedCount = 0]]
    /\ UNCHANGED <<objects, extractor, records, orders, now>>
    /\ UNCHANGED <<queue, replica, analyzer>>

QueryAndCompile(t) == QueryAndCompileOn(t, records)

\* createOrder: extractOrderData returns and the order item is built
ExtractOrderData(t) ==
    /\ tasks[t].pc = "extract"
    /\ now' = IF now < MaxClock THEN now + 1 ELSE now
    /\ \E response \in Responses :
         tasks' = [tasks EXCEPT ![t] =
                     [@ EXCEPT !.pc = "put",
                               !.extraction =
                                   IF ExtractionFails(response)
                                   THEN "failed" ELSE "ok",
                               !.orderRecord =
                                   OrderRecord(tasks[t].sessionId,
                                               tasks[t].csid, now',
                                               tasks[t].recordCount,
                                               extractOrderData(response))]]
    /\ UNCHANGED <<objects, extractor, records, orders>>
    /\ UNCHANGED <<queue, replica, analyzer>>

\* the PutCommand on the orders table: it carries no condition
PutItem(tbl, item) == [tbl EXCEPT ![item.sessionId] = item]

PutOrderItem(t) ==
    /\ tasks[t].pc = "put"
    /\ \E putOk \in BOOLEAN :
         IF putOk
         THEN /\ orders' = PutItem(orders, tasks[t].orderRecord)
              /\ tasks' = [Done(t, "Created", "none") EXCEPT
                              ![t].puts = tasks[t].puts + 1]
         ELSE /\ orders' = orders
              /\ tasks' = Done(t, "Failed", "store")
    /\ UNCHANGED <<objects, extractor, records, now>>
    /\ UNCHANGED <<replica, analyzer>>

\* the queues are left alone where the stream of the orders table is not
\* modelled
PutOrder(t) == PutOrderItem(t) /\ UNCHANGED queue

OrderProcessor(t) ==
    \/ \E i \in Triggers(records) :
            ReceiveTrigger(t, records[i].sessionId, i, records[i].fileType)
    \/ CheckCompletion(t)
    \/ GetOrder(t)
    \/ QueryAndCompile(t)
    \/ ExtractOrderData(t)
    \/ PutOrder(t)

(***************************************************************************)
(* Ingestion.  A session is the set of items derived from one uploaded     *)
(* object: an email with its attachments, or a directly uploaded pdf.      *)
(***************************************************************************)
AttachmentKinds == {"pdf", "pdfempty", "other"}

AttachmentLists ==
    UNION {[1..n -> AttachmentKinds] : n \in 0..MaxAttachments}

\* an email without subject and body and without attachments, and emails
\* with a subject and a body and any list of attachments
EmlObjects ==
    {[kind |-> "eml", subject |-> "", bodyText |-> "", text |-> "",
      attachments |-> <<>>]}
    \cup {[kind |-> "eml", subject |-> "PO 7", bodyText |-> "ready",
           text |-> "", attachments |-> a] : a \in AttachmentLists}

PdfObjects ==
    {[kind |-> "pdf", subject |-> "", bodyText |-> "", text |-> x,
      attachments |-> <<>>] : x \in {"", "INVOICE"}}

NoObject ==
    [kind |-> "none", subject |-> "", bodyText |-> "", text |-> "",
     attachments |-> <<>>]

NextId(tbl) == Cardinality(DOMAIN tbl) + 1

\* variant: an item that differs from a stored one in its id only is not
\* stored again
InsertOnce(tbl, item) ==
    IF \E i \in DOMAIN tbl : [tbl[i] EXCEPT !.id = item.id] = item
    THEN tbl ELSE tbl @@ (item.id :> item)

Insert(tbl, item) == tbl @@ (item.id :> item)

\* eml-processor: one email item per handled event of the object s, stored
\* under sessionId
ProcessEmlInto(s, sessionId) ==
    /\ objects[s].kind = "eml"
    /\ Cardinality(DOMAIN records) < MaxRecords
    /\ records' = Insert(records,
                         DynamoDBRecord(NextId(records), sessionId, "eml",
                                        Len(objects[s].attachments), AbsentNum,
                                        AbsentStr, AbsentStr, AbsentNum,
                                        objects[s].subject, objects[s].bodyText))
    /\ UNCHANGED <<objects, extractor, orders, now, tasks>>
    /\ UNCHANGED <<replica, analyzer>>

\* the name s of an uploaded object stands for the session id that the
\* handlers derive from its key and ETag (SpecSession computes the id)
ProcessEml(s) == ProcessEmlInto(s, s)

\* the text stored for a pdf attachment: the parsed text (possibly empty),
\* or the placeholder when parsePdfContent throws
AttachmentText(kind, parseOk) ==
    IF kind = "other" THEN AbsentStr
    ELSE IF ~parseOk THEN "PDF content extraction failed"
    ELSE IF kind = "pdf" THEN "INVOICE"
    ELSE ""

AttachmentRecord(id, s, kind, parseOk) ==
    DynamoDBRecord(id, s, IF kind = "other" THEN AbsentStr ELSE "pdf",
                   AbsentNum, AbsentNum, AbsentStr, AttachmentText(kind, parseOk),
                   AbsentNum, AbsentStr, AbsentStr)

\* eml-attachment-extractor: one item per attachment, in the order of the
\* attachments; extractor[s] counts the items the running invocation wrote
ExtractAttachmentInto(s, sessionId) ==
    /\ objects[s].kind = "eml"
    /\ extractor[s] < Len(objects[s].attachments)
    /\ Cardinality(DOMAIN records) < MaxRecords
    /\ \E parseOk \in IF objects[s].attachments[extractor[s] + 1] = "pdf"
                       THEN BOOLEAN ELSE {TRUE} :
         records' = Insert(records,
                           AttachmentRecord(NextId(records), sessionId,
                                            objects[s].attachments[extractor[s] + 1],
                                            parseOk))
    /\ extractor' = [extractor EXCEPT ![s] =
                        IF extractor[s] + 1 = Len(objects[s].attachments)
                        THEN 0 ELSE extractor[s] + 1]
    /\ UNCHANGED <<objects, orders, now, tasks>>
    /\ UNCHANGED <<replica, analyzer>>

ExtractAttachment(s) == ExtractAttachmentInto(s, s)

\* eml-attachment-extractor: an upload or a put throws; the event is retried
ExtractorFails(s) ==
    /\ extractor[s] > 0
    /\ extractor' = [extractor EXCEPT ![s] = 0]
    /\ UNCHANGED <<objects, records, orders, now, tasks>>
    /\ UNCHANGED <<queue, replica, analyzer>>

\* pdf-content-processor: one pdf item per directly uploaded pdf
ProcessPdfInto(s, sessionId) ==
    /\ objects[s].kind = "pdf"
    /\ Cardinality(DOMAIN records) < MaxRecords
    /\ records' = Insert(records,
                         DynamoDBRecord(NextId(records), sessionId, "pdf",
                                        AbsentNum, AbsentNum, AbsentStr,
                                        objects[s].text, AbsentNum,
                                        AbsentStr, AbsentStr))
    /\ UNCHANGED <<objects, extractor, orders, now, tasks>>
    /\ UNCHANGED <<replica, analyzer>>

ProcessPdf(s) == ProcessPdfInto(s, s)

\* email summarizer: SET aiSummary on the email item of an INSERT event
Summaries == {"Email from a@b.c: order", "Summary generation failed - AI service unavailable"}

\* the UpdateItemCommand of the summarizer: SET aiSummary on one item
\* variant: the update replaces the item by one that holds the summary only
SetSummaryReplacing(tbl, i, summary) ==
    [tbl EXCEPT ![i] = [@ EXCEPT !.aiSummary = summary,
                                 !.fileType = AbsentStr]]

SetSummary(tbl, i, summary) == [tbl EXCEPT ![i].aiSummary = summary]

Summarize(i) ==
    /\ i \in DOMAIN records
    /\ records[i].fileType = "eml"
    /\ \E summary \in Summaries :
         /\ records[i].aiSummary # summary
         /\ records' = SetSummary(records, i, summary)
    /\ UNCHANGED <<objects, extractor, orders, now, tasks>>
    /\ UNCHANGED <<replica, analyzer>>

(***************************************************************************)
(* order-changes-processor: one item of a batch of orders-table events.    *)
(***************************************************************************)
AnalyzerItems == {"a1", "a2"}

\* newImage is the extractedData of the NewImage of the event, analyzed is
\* the data that analyzeChanges puts into its prompt as the new data
NoData == [poNumber |-> "<none>"]

IdleItem ==
    [pc |-> "idle", sessionId |-> "<none>", currentOrder |-> NoOrder,
     existingRecord |-> "none", changesAnalysis |-> "none",
     outcome |-> "none", reason |-> "none", raised |-> FALSE,
     newImage |-> NoData, analyzed |-> NoData, fetchKey |-> "<none>"]

\* the catch around one item logs the error and goes on to the next item
AnalyzerRethrows(outcome) == FALSE

AnalyzerDone(a, outcome, reason) ==
    [analyzer EXCEPT ![a] = [@ EXCEPT !.pc = "done", !.outcome = outcome,
                                      !.reason = reason,
                                      !.raised = AnalyzerRethrows(outcome),
                                      !.currentOrder = NoOrder,
                                      !.existingRecord = "none",
                                      !.fetchKey = "<none>"]]

\* the items of one batch are handled one after the other, as long as no
\* error has left the loop
AnalyzerBatchContinues(a) ==
    a = "a2" => (analyzer["a1"].pc = "done" /\ ~analyzer["a1"].raised)

\* the bodies of the messages of the order changes queue: an orders-table
\* event for a stored order, or a body that does not parse, has no NewImage
\* or has no sessionId
MalformedBodies == {"unparsable", "no NewImage", "no sessionId"}

\* handler: the envelope is decoded
AnalyzerReceive(a) ==
    /\ analyzer[a].pc = "idle"
    /\ AnalyzerBatchContinues(a)
    /\ \/ \E body \in MalformedBodies :
            analyzer' = AnalyzerDone(a, "Skipped", body)
       \/ \E s \in Sessions :
            /\ orders[s] # NoOrder
            /\ analyzer' = [analyzer EXCEPT ![a] =
                               [@ EXCEPT !.pc = "get", !.sessionId = s,
                                         !.newImage = orders[s].extractedData]]
    /\ UNCHANGED <<objects, extractor, records, orders, now, tasks>>
    /\ UNCHANGED <<queue, replica>>

\* getCurrentOrder: the item of the orders table, or null when the get fails
getCurrentOrder(tbl, s, getOk) == IF getOk THEN tbl[s] ELSE NoOrder

AnalyzerGetOrder(a) ==
    /\ analyzer[a].pc = "get"
    /\ \E getOk \in BOOLEAN :
         LET currentOrder == getCurrentOrder(orders, analyzer[a].sessionId, getOk)
         IN  analyzer' =
                 IF currentOrder = NoOrder
                 THEN AnalyzerDone(a, "Skipped", "order not found")
                 ELSE [analyzer EXCEPT ![a] =
                         [@ EXCEPT !.pc = "fetch",
                                   !.currentOrder = currentOrder]]
    /\ UNCHANGED <<objects, extractor, records, orders, now, tasks>>
    /\ UNCHANGED <<queue, replica>>

\* getCargoSynqRecord: the record of the external API, or null when the
\* request fails or is answered with a status that is not ok
FetchResults == {"request error", "not ok", "snapshot"}

getCargoSynqRecord(result) == IF result = "snapshot" THEN "snapshot" ELSE "null"

\* handler: the record of the external API is handed to analyzeChanges
\* without a test, so a null does not end the item
\* variant: the item ends when the external API gave no record
FetchAbortsOnNull(existingRecord) == existingRecord = "null"

FetchAborts(existingRecord) == FALSE

\* handler: the key of the request is the csid of the current order, or the
\* sessionId when the order has no csid
\* variant: the key is the sessionId
FetchKeyOfSession(currentOrder, sessionId) == sessionId

FetchKey(currentOrder, sessionId) ==
    IF TruthyStr(currentOrder.csid) THEN currentOrder.csid ELSE sessionId

AnalyzerFetchRecord(a) ==
    /\ analyzer[a].pc = "fetch"
    /\ \E result \in FetchResults :
         LET existingRecord == getCargoSynqRecord(result)
         IN  analyzer' =
                 IF FetchAborts(existingRecord)
                 THEN AnalyzerDone(a, "Skipped", "no snapshot")
                 ELSE [analyzer EXCEPT ![a] =
                         [@ EXCEPT !.pc = "analyze",
                                   !.existingRecord = existingRecord,
                                   !.fetchKey =
                                       FetchKey(analyzer[a].currentOrder,
                                                analyzer[a].sessionId)]]
    /\ UNCHANGED <<objects, extractor, records, orders, now, tasks>>
    /\ UNCHANGED <<queue, replica>>

\* analyzeChanges: the parsed reply, or an object with an error marker
ErrorReport == "error: Failed to analyze changes"

\* variant: a reply with a content is returned even when it does not parse
analyzeChangesLenient(response) ==
    IF response.error \/ response.content \in {NoContent, <<>>}
    THEN ErrorReport ELSE "changes"

analyzeChanges(response) ==
    IF ExtractionFails(response) THEN ErrorReport ELSE "changes"

\* the try of analyzeChanges encloses its whole body: nothing is thrown
AnalysisThrows(response) == FALSE

\* analyzeChanges: the prompt shows the extractedData of the order that was
\* read from the table; the parameter extractedData, parsed from the
\* NewImage, is not used
\* variant: the prompt shows the data of the NewImage
NewExtractedDataOfImage(extractedData, currentOrder) == extractedData

NewExtractedData(extractedData, currentOrder) == currentOrder.extractedData

\* the results are written to the log and to nothing else
\* variant: the results are merged into the stored order
LogResultsMerging(tbl, currentOrder, changesAnalysis) ==
    [tbl EXCEPT ![currentOrder.sessionId] =
        [@ EXCEPT !.processingStatus = changesAnalysis]]

LogResults(tbl, currentOrder, changesAnalysis) == tbl

AnalyzerAnalyze(a) ==
    /\ analyzer[a].pc = "analyze"
    /\ \E response \in Responses :
         LET changesAnalysis == analyzeChanges(response)
         IN  IF AnalysisThrows(response)
             THEN /\ analyzer' = AnalyzerDone(a, "Failed", "analysis")
                  /\ orders' = orders
             ELSE /\ analyzer' =
                        [AnalyzerDone(a, "Reported", "none") EXCEPT
                            ![a].changesAnalysis = changesAnalysis,
                            ![a].analyzed =
                                NewExtractedData(analyzer[a].newImage,
                                                 analyzer[a].currentOrder)]
                  /\ orders' = LogResults(orders, analyzer[a].currentOrder,
                                          changesAnalysis)
    /\ UNCHANGED <<objects, extractor, records, now, tasks>>
    /\ UNCHANGED <<queue, replica>>

OrderChangesProcessor(a) ==
    \/ AnalyzerReceive(a)
    \/ AnalyzerGetOrder(a)
    \/ AnalyzerFetchRecord(a)
    \/ AnalyzerAnalyze(a)

(***************************************************************************)
(* The system: ingestion, summarization and the order processor's          *)
(* invocations, interleaved at every await.                                *)
(***************************************************************************)
NoRecords == [i \in {} |-> 0]

Init ==
    /\ objects \in [Sessions -> EmlObjects \cup PdfObjects \cup {NoObject}]
    /\ objects["s1"] # NoObject
    /\ objects["s2"] = NoObject
    /\ extractor = [s \in Sessions |-> 0]
    /\ records = NoRecords
    /\ orders = [s \in Sessions |-> NoOrder]
    /\ now = 0
    /\ tasks = [t \in Tasks |-> IdleTask]
    /\ queue = [s \in Sessions |-> 0]
    /\ replica = NoRecords
    /\ analyzer = [a \in AnalyzerItems |-> IdleItem]

\* the order processor of this specification is invoked on any trigger of a
\* stored item, any number of times: the queue of triggers is not used
Next ==
    \/ \E s \in Sessions : ProcessEml(s) /\ UNCHANGED queue
    \/ \E s \in Sessions : ExtractAttachment(s) /\ UNCHANGED queue
    \/ \E s \in Sessions : ExtractorFails(s)
    \/ \E s \in Sessions : ProcessPdf(s) /\ UNCHANGED queue
    \/ \E i \in RecordIds : Summarize(i) /\ UNCHANGED queue
    \/ \E t \in Tasks : OrderProcessor(t)

Spec == Init /\ [][Next]_vars

(***************************************************************************)
(* Batches.  One invocation of the order processor handles the messages    *)
(* t1, t2 of one batch in turn, and one invocation of the order changes    *)
(* processor the messages a1, a2 of one batch.                             *)
(***************************************************************************)
BatchContinues(t) ==
    t = "t2" => (tasks["t1"].pc = "done" /\ ~tasks["t1"].raised)

\* handler: the next message of the batch is a trigger for a stored item
ReceiveBatchItem(t) ==
    /\ BatchContinues(t)
    /\ \E i \in Triggers(records) :
            ReceiveTrigger(t, records[i].sessionId, i, records[i].fileType)

\* the bodies that the handler does not take for a trigger: a body that does
\* not parse (JSON.parse throws into the catch of the item), a body without
\* NewImage, and a NewImage without id, fileType or sessionId (continue)
MalformedTriggers ==
    {"unparsable", "no NewImage", "no id", "no fileType", "no sessionId"}

\* handler: the next message of the batch is not a trigger
SkipItem(t) ==
    /\ tasks[t].pc = "idle"
    /\ BatchContinues(t)
    /\ \E body \in MalformedTriggers :
         tasks' = Done(t, "Skipped", body)
    /\ UNCHANGED <<objects, extractor, records, orders, now>>
    /\ UNCHANGED <<queue, replica, analyzer>>

StartItem(t) == ReceiveBatchItem(t) \/ SkipItem(t)

OrderProcessorBatch(t) ==
    \/ ReceiveBatchItem(t)
    \/ SkipItem(t)
    \/ CheckCompletion(t)
    \/ GetOrder(t)
    \/ QueryAndCompile(t)
    \/ ExtractOrderData(t)
    \/ PutOrder(t)

NextBatch ==
    \/ \E s \in Sessions : ProcessEml(s) /\ UNCHANGED queue
    \/ \E s \in Sessions : ProcessPdf(s) /\ UNCHANGED queue
    \/ \E i \in RecordIds : Summarize(i) /\ UNCHANGED queue
    \/ \E t \in Tasks : OrderProcessorBatch(t)
    \/ \E a \in AnalyzerItems : OrderChangesProcessor(a)

\* the uploaded object is a pdf or an email without attachments
InitBatch ==
    /\ Init
    /\ objects["s1"].attachments = <<>>

SpecBatch == InitBatch /\ [][NextBatch]_vars

(***************************************************************************)
(* Batches on items with a csid.  The uploaded object is an email whose    *)
(* subject or whose body carries a #CSID:uuid# tag, or a pdf.              *)
(***************************************************************************)
CsidObjects ==
    {[kind |-> "eml", subject |-> "PO 7 " \o CsidTag, bodyText |-> "ready",
      text |-> "", attachments |-> <<>>],
     [kind |-> "eml", subject |-> "PO 7", bodyText |-> "ready " \o CsidTag,
      text |-> "", attachments |-> <<>>],
     [kind |-> "pdf", subject |-> "", bodyText |-> "", text |-> "INVOICE",
      attachments |-> <<>>]}

InitCsid ==
    /\ objects \in [Sessions -> CsidObjects \cup {NoObject}]
    /\ objects["s1"] \in CsidObjects
    /\ objects["s2"] = NoObject
    /\ extractor = [s \in Sessions |-> 0]
    /\ records = NoRecords
    /\ orders = [s \in Sessions |-> NoOrder]
    /\ now = 0
    /\ tasks = [t \in Tasks |-> IdleTask]
    /\ queue = [s \in Sessions |-> 0]
    /\ replica = NoRecords
    /\ analyzer = [a \in AnalyzerItems |-> IdleItem]

SpecCsid == InitCsid /\ [][NextBatch]_vars

(***************************************************************************)
(* Triggers and stale reads.  The stream rules put one message on the      *)
(* order processing queue for every insert of an eml or pdf item and for   *)
(* every update of an item that has an aiSummary; each message is handled  *)
(* by one invocation.  The queries of the order processor do not ask for   *)
(* a consistent read: they read a replica that lags behind the table.      *)
(***************************************************************************)
Fired(old, new, s) ==
    Cardinality({i \in DOMAIN new :
        /\ new[i].sessionId = s
        /\ \/ i \notin DOMAIN old /\ new[i].fileType \in {"eml", "pdf"}
           \/ /\ i \in DOMAIN old
              /\ new[i] # old[i]
              /\ new[i].aiSummary # AbsentStr})

\* the messages that the change of the records table in this step fires
Dispatch ==
    /\ \A s \in Sessions : queue[s] + Fired(records, records', s) <= MaxQueue
    /\ queue' = [s \in Sessions |-> queue[s] + Fired(records, records', s)]

\* the queue hands a message to the handler, which decodes it
DeliverTrigger(t, s) ==
    /\ tasks[t].pc \in {"idle", "done"}
    /\ queue[s] > 0
    /\ queue' = [queue EXCEPT ![s] = @ - 1]
    /\ tasks' = [tasks EXCEPT ![t] =
                   [IdleTask EXCEPT !.pc = "check",
                                    !.sessionId = s,
                                    !.lateStart = orders[s] # NoOrder,
                                    !.existedAtStart = orders[s] # NoOrder]]
    /\ UNCHANGED <<objects, extractor, records, orders, now>>
    /\ UNCHANGED <<replica, analyzer>>

\* the replica catches up with the table
Propagate ==
    /\ replica # records
    /\ replica' = records
    /\ UNCHANGED <<objects, extractor, records, orders, now, tasks>>
    /\ UNCHANGED <<queue, analyzer>>

NextStale ==
    \/ \E s \in Sessions : ProcessEml(s) /\ Dispatch
    \/ \E s \in Sessions : ExtractAttachment(s) /\ Dispatch
    \/ \E s \in Sessions : ProcessPdf(s) /\ Dispatch
    \/ \E i \in RecordIds : Summarize(i) /\ Dispatch
    \/ Propagate
    \/ \E s \in Sessions : DeliverTrigger("t1", s)
    \/ CheckCompletionOn("t1", replica)
    \/ GetOrder("t1")
    \/ QueryAndCompileOn("t1", replica)
    \/ ExtractOrderData("t1")
    \/ PutOrder("t1")

\* the uploaded object is a pdf or an email with one attachment at most
InitStale ==
    /\ Init
    /\ Len(objects["s1"].attachments) <= 1

SpecStale == InitStale /\ [][NextStale]_vars

(***************************************************************************)
(* Two sessions.  Two objects are uploaded, each a pdf or an email without *)
(* attachments (the second one with a content), and the invocations of the *)
(* order processor are triggered by the items of either session, in any    *)
(* interleaving.                                                           *)
(***************************************************************************)
InitTwo ==
    /\ objects \in [Sessions -> {o \in EmlObjects \cup PdfObjects :
                                    o.attachments = <<>>}]
    /\ objects["s2"].subject # "" \/ objects["s2"].text # ""
    /\ extractor = [s \in Sessions |-> 0]
    /\ records = NoRecords
    /\ orders = [s \in Sessions |-> NoOrder]
    /\ now = 0
    /\ tasks = [t \in Tasks |-> IdleTask]
    /\ queue = [s \in Sessions |-> 0]
    /\ replica = NoRecords
    /\ analyzer = [a \in AnalyzerItems |-> IdleItem]

NextTwo ==
    \/ \E s \in Sessions : ProcessEml(s) /\ UNCHANGED queue
    \/ \E s \in Sessions : ProcessPdf(s) /\ UNCHANGED queue
    \/ \E i \in RecordIds : Summarize(i) /\ UNCHANGED queue
    \/ \E t \in Tasks : OrderProcessor(t)

SpecTwo == InitTwo /\ [][NextTwo]_vars

(***************************************************************************)
(* The trigger pipeline.  Here queue holds the messages of all queues: the *)
(* object-created events of the uploaded object not yet handled, the ids   *)
(* of the email items whose INSERT waits for the summarizer, the number of *)
(* messages of the order processing queue and of the order changes queue.  *)
(* Every message is handled once; a handler that fails has consumed its    *)
(* message, because no handler of these three queues throws.               *)
(***************************************************************************)
MaxUploads == 2
MaxPending == 5

\* dynamoStreamRule: INSERT of an item with fileType eml
\* variant: the rule also forwards the MODIFY events of email items
EmailSummaryEventsWithModify(old, new) ==
    {i \in DOMAIN new :
        /\ new[i].fileType = "eml"
        /\ i \in DOMAIN old => new[i] # old[i]}

EmailSummaryEvents(old, new) ==
    {i \in DOMAIN new \ DOMAIN old : new[i].fileType = "eml"}

\* ordersStreamRule: INSERT and MODIFY of an item of the orders table
OrderChangesEvents(old, new) ==
    Cardinality({s \in Sessions : new[s] # old[s]})

\* the messages that the changes of this step to the two tables fire
Emit(consumed) ==
    LET q == [queue EXCEPT
                 !.uploads = @ - consumed.uploads,
                 !.emailSummary = @ \ consumed.emailSummary,
                 !.orderProcessing = @ - consumed.orderProcessing,
                 !.orderChanges = @ - consumed.orderChanges]
    IN  /\ q.orderProcessing + Fired(records, records', "s1") <= MaxPending
        /\ q.orderChanges + OrderChangesEvents(orders, orders') <= MaxPending
        /\ queue' =
              [q EXCEPT
                 !.emailSummary = @ \cup EmailSummaryEvents(records, records'),
                 !.orderProcessing = @ + Fired(records, records', "s1"),
                 !.orderChanges = @ + OrderChangesEvents(orders, orders')]

NoMessage ==
    [uploads |-> 0, emailSummary |-> {}, orderProcessing |-> 0,
     orderChanges |-> 0]

\* eml-processor or pdf-content-processor on one object-created event
HandleUpload ==
    /\ queue.uploads > 0
    /\ ProcessEml("s1") \/ ProcessPdf("s1")
    /\ Emit([NoMessage EXCEPT !.uploads = 1])

\* email summarizer on the INSERT event of the email item i
HandleEmailInsert(i) ==
    /\ i \in queue.emailSummary
    /\ Summarize(i)
    /\ Emit([NoMessage EXCEPT !.emailSummary = {i}])

\* order processor: the next message of the order processing queue
HandleTrigger(t) ==
    /\ tasks[t].pc \in {"idle", "done"}
    /\ queue.orderProcessing > 0
    /\ tasks' = [tasks EXCEPT ![t] =
                   [IdleTask EXCEPT !.pc = "check",
                                    !.sessionId = "s1",
                                    !.existedAtStart = orders["s1"] # NoOrder]]
    /\ UNCHANGED <<objects, extractor, records, orders, now>>
    /\ UNCHANGED <<replica, analyzer>>
    /\ Emit([NoMessage EXCEPT !.orderProcessing = 1])

\* order changes processor: the next message of the order changes queue
HandleOrderChange(a) ==
    /\ analyzer[a].pc \in {"idle", "done"}
    /\ queue.orderChanges > 0
    /\ analyzer' = [analyzer EXCEPT ![a] =
                      [IdleItem EXCEPT !.pc = "get", !.sessionId = "s1"]]
    /\ UNCHANGED <<objects, extractor, records, orders, now, tasks>>
    /\ UNCHANGED replica
    /\ Emit([NoMessage EXCEPT !.orderChanges = 1])

NextPipeline ==
    \/ HandleUpload
    \/ \E i \in RecordIds : HandleEmailInsert(i)
    \/ HandleTrigger("t1")
    \/ CheckCompletion("t1")
    \/ GetOrder("t1")
    \/ QueryAndCompile("t1")
    \/ ExtractOrderData("t1")
    \/ PutOrderItem("t1") /\ Emit(NoMessage)
    \/ HandleOrderChange("a1")
    \/ AnalyzerGetOrder("a1")
    \/ AnalyzerFetchRecord("a1")
    \/ AnalyzerAnalyze("a1")

\* one object is uploaded, a pdf or an email without attachments; its
\* object-created event is delivered once or twice
InitPipeline ==
    /\ objects \in [Sessions -> {o \in EmlObjects \cup PdfObjects \cup {NoObject} :
                                    o.attachments = <<>>}]
    /\ objects["s1"] # NoObject
    /\ objects["s2"] = NoObject
    /\ extractor = [s \in Sessions |-> 0]
    /\ records = NoRecords
    /\ orders = [s \in Sessions |-> NoOrder]
    /\ now = 0
    /\ tasks = [t \in Tasks |-> IdleTask]
    /\ \E n \in 1..MaxUploads : queue = [NoMessage EXCEPT !.uploads = n]
    /\ replica = NoRecords
    /\ analyzer = [a \in AnalyzerItems |-> IdleItem]

SpecPipeline == InitPipeline /\ [][NextPipeline]_vars

\* every queue hands its messages on and every handler runs to its end
SpecPipelineFair == SpecPipeline /\ WF_vars(NextPipeline)

(***************************************************************************)
(* Batches of object-created events.  One invocation of an ingestion       *)
(* handler gets the messages for the objects s1 and s2 in one batch and    *)
(* handles them in turn.  Here queue holds the state of the batch: the     *)
(* handler, the position of the next message, the outcomes of the messages *)
(* handled in this delivery, and whether the invocation has ended.  The    *)
(* event source mappings ask for no partial batch response, so a batch     *)
(* whose invocation failed is delivered again as a whole.                  *)
(***************************************************************************)
MaxDeliveries == 2

Handlers == {"eml-processor", "eml-attachment-extractor", "pdf-content-processor"}

Messages == <<"s1", "s2">>

\* the catch around one message: the email handlers throw the error again,
\* the pdf handler logs it
\* variant: no handler throws the error again
IngestRethrowsNever(handler) == FALSE

\* variant: every handler throws the error again
IngestRethrowsAlways(handler) == TRUE

IngestRethrows(handler) == handler # "pdf-content-processor"

NewBatch(handler) ==
    [handler |-> handler, position |-> 1, outcomes |-> <<>>,
     status |-> "running", deliveries |-> 1]

\* the loop goes on to the next message, or ends after the last one
Advance(outcome) ==
    [queue EXCEPT !.position = @ + 1,
                  !.outcomes = Append(@, outcome),
                  !.status = IF queue.position = Len(Messages)
                             THEN "succeeded" ELSE "running"]

\* an error was caught while the message at the position was handled
Caught ==
    IF IngestRethrows(queue.handler)
    THEN [queue EXCEPT !.outcomes = Append(@, "failed"), !.status = "failed"]
    ELSE Advance("failed")

Handling(handler) ==
    /\ queue.handler = handler
    /\ queue.status = "running"
    /\ queue.position <= Len(Messages)

\* a message is handled to its end
IngestStores ==
    /\ \/ Handling("eml-processor") /\ ProcessEml(Messages[queue.position])
       \/ Handling("eml-attachment-extractor")
             /\ ExtractAttachment(Messages[queue.position])
       \/ Handling("pdf-content-processor")
             /\ ProcessPdf(Messages[queue.position])
    /\ queue' = Advance("stored")

\* eml-attachment-extractor: an email without attachments is passed over
IngestSkips ==
    /\ Handling("eml-attachment-extractor")
    /\ objects[Messages[queue.position]].attachments = <<>>
    /\ queue' = Advance("skipped")
    /\ UNCHANGED <<objects, extractor, records, orders, now, tasks>>
    /\ UNCHANGED <<replica, analyzer>>

\* the read of the object, the parse or the put throws: nothing is stored
IngestFails ==
    /\ \E handler \in Handlers : Handling(handler)
    /\ queue' = Caught
    /\ UNCHANGED <<objects, extractor, records, orders, now, tasks>>
    /\ UNCHANGED <<replica, analyzer>>

\* eml-processor: the upload of an attachment throws, after the put of the
\* email item
IngestFailsAfterPut ==
    /\ Handling("eml-processor")
    /\ objects[Messages[queue.position]].attachments # <<>>
    /\ ProcessEml(Messages[queue.position])
    /\ queue' = Caught

\* the batch of a failed invocation becomes visible again and is delivered
Redeliver ==
    /\ queue.status = "failed"
    /\ queue.deliveries < MaxDeliveries
    /\ queue' = [NewBatch(queue.handler) EXCEPT
                    !.deliveries = queue.deliveries + 1]
    /\ UNCHANGED <<objects, extractor, records, orders, now, tasks>>
    /\ UNCHANGED <<replica, analyzer>>

NextIngest ==
    \/ IngestStores
    \/ IngestSkips
    \/ IngestFails
    \/ IngestFailsAfterPut
    \/ Redeliver

\* two emails with one attachment at most for the email handlers, two pdfs
\* for the pdf handler
InitIngest ==
    /\ \E handler \in Handlers :
          /\ queue = NewBatch(handler)
          /\ objects \in
                [Sessions ->
                    IF handler = "pdf-content-processor" THEN PdfObjects
                    ELSE {o \in EmlObjects : Len(o.attachments) <= 1}]
    /\ extractor = [s \in Sessions |-> 0]
    /\ records = NoRecords
    /\ orders = [s \in Sessions |-> NoOrder]
    /\ now = 0
    /\ tasks = [t \in Tasks |-> IdleTask]
    /\ replica = NoRecords
    /\ analyzer = [a \in AnalyzerItems |-> IdleItem]

SpecIngest == InitIngest /\ [][NextIngest]_vars

(***************************************************************************)
(* The order changes processor on any events.  The orders table holds any  *)
(* orders; an event names any session and carries any extractedData in its *)
(* NewImage, which need not be what the table holds when it is handled.    *)
(***************************************************************************)
ExtractedData == {EmptyObject, ParsedObject("{A}"), ParsedObject("{B}")}

StoredOrders(s) ==
    {OrderRecord(s, "", 1, 1, orderData) : orderData \in ExtractedData}

\* handler: the envelope is decoded
AnalyzerReceiveAny(a) ==
    /\ analyzer[a].pc = "idle"
    /\ AnalyzerBatchContinues(a)
    /\ \/ \E body \in MalformedBodies :
            analyzer' = AnalyzerDone(a, "Skipped", body)
       \/ \E s \in Sessions, extractedData \in ExtractedData :
            analyzer' = [analyzer EXCEPT ![a] =
                            [@ EXCEPT !.pc = "get", !.sessionId = s,
                                      !.newImage = extractedData]]
    /\ UNCHANGED <<objects, extractor, records, orders, now, tasks>>
    /\ UNCHANGED <<queue, replica>>

NextAnalyzer ==
    \E a \in AnalyzerItems :
        \/ AnalyzerReceiveAny(a)
        \/ AnalyzerGetOrder(a)
        \/ AnalyzerFetchRecord(a)
        \/ AnalyzerAnalyze(a)

InitAnalyzer ==
    /\ objects = [s \in Sessions |-> NoObject]
    /\ extractor = [s \in Sessions |-> 0]
    /\ records = NoRecords
    /\ orders \in [Sessions -> {NoOrder} \cup UNION {StoredOrders(s) : s \in Sessions}]
    /\ \A s \in Sessions : orders[s] = NoOrder \/ orders[s].sessionId = s
    /\ now = 0
    /\ tasks = [t \in Tasks |-> IdleTask]
    /\ queue = [s \in Sessions |-> 0]
    /\ replica = NoRecords
    /\ analyzer = [a \in AnalyzerItems |-> IdleItem]

SpecAnalyzer == InitAnalyzer /\ [][NextAnalyzer]_vars

(***************************************************************************)
(* Session ids.  The three ingestion handlers derive the sessionId of the  *)
(* items they write from the key and the ETag of the uploaded object, each *)
(* with its own copy of generateSessionId.  Strings are sequences of       *)
(* characters.                                                             *)
(***************************************************************************)
SessionIdLength == 16

NoETag == <<"<absent>">>
Quotes == {"'", "\""}

TruthyChars(x) == x # NoETag /\ x # <<>>

RemoveQuotes(x) == SelectSeq(x, LAMBDA c : c \notin Quotes)

Substring(x, n) == SubSeq(x, 1, IF Len(x) < n THEN Len(x) ELSE n)

\* eml-processor
generateSessionId(objectKey, etag) ==
    LET baseString == IF TruthyChars(etag) THEN etag ELSE objectKey
        cleanBase == RemoveQuotes(baseString)
    IN  <<"session-">> \o Substring(cleanBase, SessionIdLength)

\* variant: the id is derived from the key alone, as it is from the path of
\* an attachment
generateSessionIdFromPath(objectKey, etag) ==
    <<"session-">> \o Substring(RemoveQuotes(objectKey), SessionIdLength)

\* eml-attachment-extractor
generateSessionIdOfExtractor(objectKey, etag) ==
    LET baseString == IF TruthyChars(etag) THEN etag ELSE objectKey
        cleanBase == RemoveQuotes(baseString)
    IN  <<"session-">> \o Substring(cleanBase, SessionIdLength)

\* pdf-content-processor
generateSessionIdOfPdfProcessor(objectKey, etag) ==
    LET baseString == IF TruthyChars(etag) THEN etag ELSE objectKey
        cleanBase == RemoveQuotes(baseString)
    IN  <<"session-">> \o Substring(cleanBase, SessionIdLength)

AttachmentsPrefix ==
    <<"a", "t", "t", "a", "c", "h", "m", "e", "n", "t", "s", "/">>

StartsWith(x, prefix) ==
    Len(x) >= Len(prefix) /\ SubSeq(x, 1, Len(prefix)) = prefix

\* keys and ETags of uploaded objects
Hex ==
    <<"0", "1", "2", "3", "4", "5", "6", "7",
      "8", "9", "a", "b", "c", "d", "e", "f">>

Run(n, k) == [i \in 1..n |-> Hex[((i + k) % 16) + 1]]

ObjectKeys ==
    { <<"a", ".", "e">>,
      <<"i", "t", "'", "s", ".", "e">>,
      Run(18, 3) \o <<".", "e">>,
      AttachmentsPrefix \o <<"x", "/", "y", ".", "p">> }

ETags ==
    { NoETag, <<>>,
      <<"\"">> \o Run(20, 0) \o <<"\"">>,
      Run(20, 5),
      <<"\"">> \o Run(4, 0) \o <<"\"">> }

Upload(object, objectKey, etag) ==
    [kind |-> object.kind, subject |-> object.subject,
     bodyText |-> object.bodyText, text |-> object.text,
     attachments |-> object.attachments,
     objectKey |-> objectKey, etag |-> etag]

Uploads ==
    {Upload(object, objectKey, etag) :
        object \in EmlObjects \cup PdfObjects,
        objectKey \in ObjectKeys, etag \in ETags}

\* eml-processor on the event of the uploaded object s
ProcessEmlEvent(s) ==
    ProcessEmlInto(s, generateSessionId(objects[s].objectKey, objects[s].etag))

\* eml-attachment-extractor on the same event
ExtractAttachmentEvent(s) ==
    ExtractAttachmentInto(s, generateSessionIdOfExtractor(objects[s].objectKey,
                                                          objects[s].etag))

\* pdf-content-processor: an object under attachments/ is skipped
ProcessPdfEvent(s) ==
    /\ objects[s].kind = "pdf"
    /\ ~StartsWith(objects[s].objectKey, AttachmentsPrefix)
    /\ ProcessPdfInto(s, generateSessionIdOfPdfProcessor(objects[s].objectKey,
                                                         objects[s].etag))

InitSession ==
    /\ objects \in [Sessions -> Uploads \cup {NoObject}]
    /\ objects["s1"] # NoObject
    /\ objects["s2"] = NoObject
    /\ extractor = [s \in Sessions |-> 0]
    /\ records = NoRecords
    /\ orders = [s \in Sessions |-> NoOrder]
    /\ now = 0
    /\ tasks = [t \in Tasks |-> IdleTask]
    /\ queue = [s \in Sessions |-> 0]
    /\ replica = NoRecords
    /\ analyzer = [a \in AnalyzerItems |-> IdleItem]

NextSession ==
    \/ \E s \in Sessions : ProcessEmlEvent(s) /\ UNCHANGED queue
    \/ \E s \in Sessions : ExtractAttachmentEvent(s) /\ UNCHANGED queue
    \/ \E s \in Sessions : ProcessPdfEvent(s) /\ UNCHANGED queue
    \/ \E i \in RecordIds : Summarize(i) /\ UNCHANGED queue

SpecSession == InitSession /\ [][NextSession]_vars

(***************************************************************************)
(* The detector on arbitrary items.  The records table starts with any     *)
(* items of one session that the DynamoDBRecord interface admits; the      *)
(* order processor handles a trigger on them, and absent fields of the     *)
(* items are filled in.                                                    *)
(***************************************************************************)
DetEmls(i) ==
    {DynamoDBRecord(i, "s1", "eml", ac, pac, sum, AbsentStr, AbsentNum,
                    AbsentStr, AbsentStr) :
        ac \in {AbsentNum, 0, 1},
        pac \in {AbsentNum} \cup 0..MaxCount,
        sum \in {AbsentStr, "", "S"}}

DetPdfs(i) ==
    {DynamoDBRecord(i, "s1", "pdf", AbsentNum, AbsentNum, AbsentStr, txt, eid,
                    AbsentStr, AbsentStr) :
        txt \in {AbsentStr, "", "T"},
        eid \in {AbsentNum} \cup RecordIds}

DetOthers(i) ==
    {DynamoDBRecord(i, "s1", AbsentStr, AbsentNum, AbsentNum, AbsentStr,
                    AbsentStr, AbsentNum, AbsentStr, AbsentStr)}

DetItems == DetEmls(0) \cup DetPdfs(0) \cup DetOthers(0)

\* ids are names: the email items take the low ids
DetTable(items) ==
    /\ \A i \in DOMAIN items : i > MaxEmails => items[i].fileType # "eml"
    /\ records = [i \in DOMAIN items |-> [items[i] EXCEPT !.id = i]]

InitDetector ==
    /\ objects = [s \in Sessions |-> NoObject]
    /\ extractor = [s \in Sessions |-> 0]
    /\ \E n \in 0..MaxRecords : \E items \in [1..n -> DetItems] : DetTable(items)
    /\ orders = [s \in Sessions |-> NoOrder]
    /\ now = 0
    /\ tasks = [t \in Tasks |-> IdleTask]
    /\ queue = [s \in Sessions |-> 0]
    /\ replica = NoRecords
    /\ analyzer = [a \in AnalyzerItems |-> IdleItem]

FillValues(field) ==
    IF field = "aiSummary" THEN {"", "S"}
    ELSE IF field = "textContent" THEN {"", "T"}
    ELSE IF field = "attachmentCount" THEN {0, 1}
    ELSE IF field = "pdfAttachmentCount" THEN 0..MaxCount
    ELSE RecordIds

FieldsOf(r) ==
    IF r.fileType = "eml"
    THEN {"aiSummary", "attachmentCount", "pdfAttachmentCount"}
    ELSE IF r.fileType = "pdf" THEN {"textContent", "emlRecordId"}
    ELSE {"textContent"}

\* a field that the item does not have yet is set
FillField(i, field) ==
    /\ i \in DOMAIN records
    /\ field \in FieldsOf(records[i])
    /\ \A t \in Tasks : tasks[t].pc = "idle"
    /\ IF field \in {"aiSummary", "textContent"}
       THEN records[i][field] = AbsentStr
       ELSE records[i][field] = AbsentNum
    /\ \E v \in FillValues(field) :
         records' = [records EXCEPT ![i][field] = v]
    /\ UNCHANGED <<objects, extractor, orders, now, tasks>>
    /\ UNCHANGED <<queue, replica, analyzer>>

DetectorFields ==
    {"aiSummary", "attachmentCount", "pdfAttachmentCount", "textContent",
     "emlRecordId"}

NextDetector ==
    \/ \E i \in RecordIds, field \in DetectorFields : FillField(i, field)
    \/ \E fileType \in {"eml", "pdf"} : ReceiveTrigger("t1", "s1", 0, fileType)
    \/ CheckCompletion("t1")
    \/ GetOrder("t1")
    \/ QueryAndCompile("t1")
    \/ ExtractOrderData("t1")
    \/ PutOrder("t1")

SpecDetector == InitDetector /\ [][NextDetector]_vars

(***************************************************************************)
(* Properties of the detector.                                             *)
(***************************************************************************)
DetItemsNow == QueryItems(records, "s1")
DetEmlsNow == {i \in DOMAIN records : records[i].fileType = "eml"}
DetPdfsNow == {i \in DOMAIN records : records[i].fileType = "pdf"}

HasText(r) == r.textContent # AbsentStr /\ r.textContent # ""
HasSummary(r) == r.aiSummary # AbsentStr /\ r.aiSummary # ""

WithField(tbl, i, field, v) == [tbl EXCEPT ![i][field] = v]

\* C6: in a session with pdf items and no email item the detector answers
\* true exactly when every pdf item has a non-empty textContent, and clearing
\* the text of any one pdf item of a complete session makes it answer false.
C6_Rule1DocumentOnly ==
    (DetEmlsNow = {} /\ DetPdfsNow # {}) =>
        /\ IsSessionComplete(DetItemsNow)
               <=> \A i \in DetPdfsNow : HasText(records[i])
        /\ IsSessionComplete(DetItemsNow) =>
               \A i \in DetPdfsNow, cleared \in {"", AbsentStr} :
                  ~IsSessionComplete(
                      QueryItems(WithField(records, i, "textContent", cleared),
                                 "s1"))
        /\ (tasks["t1"].pc = "done" /\ tasks["t1"].outcome = "NotReady"
              /\ tasks["t1"].reason = "none")
               => \E i \in DetPdfsNow : ~HasText(records[i])

\* C6 witness: the handler found a session of two processed pdf items complete
C6_Witness ==
    /\ DetEmlsNow = {}
    /\ Cardinality(DetPdfsNow) >= 2
    /\ \A i \in DetPdfsNow : HasText(records[i])
    /\ tasks["t1"].pc = "get"
    /\ tasks["t1"].isComplete

\* C7 as claimed: in a session with email items and no pdf item the detector
\* answers true exactly when every email item has a non-empty aiSummary and
\* its pdfAttachmentCount is zero or absent.
C7_Rule2ZeroOrAbsent ==
    (DetEmlsNow # {} /\ DetPdfsNow = {}) =>
        (IsSessionComplete(DetItemsNow)
            <=> \A i \in DetEmlsNow :
                   /\ HasSummary(records[i])
                   /\ records[i].pdfAttachmentCount \in {0, AbsentNum})

\* C7 as amended: in a session with email items and no pdf item the detector
\* answers true exactly when every email item has a non-empty aiSummary and
\* an attachmentCount or a pdfAttachmentCount that is present and zero; an
\* email item with a summary and neither count is not complete.
C7_Rule2ExplicitZero ==
    (DetEmlsNow # {} /\ DetPdfsNow = {}) =>
        /\ IsSessionComplete(DetItemsNow)
               <=> \A i \in DetEmlsNow :
                      /\ HasSummary(records[i])
                      /\ \/ records[i].attachmentCount = 0
                         \/ records[i].pdfAttachmentCount = 0
        /\ (\E i \in DetEmlsNow :
               /\ records[i].attachmentCount = AbsentNum
               /\ records[i].pdfAttachmentCount = AbsentNum)
               => ~IsSessionComplete(DetItemsNow)
        /\ (tasks["t1"].pc = "done" /\ tasks["t1"].outcome = "NotReady"
              /\ tasks["t1"].reason = "none")
               => \E i \in DetEmlsNow :
                     \/ ~HasSummary(records[i])
                     \/ /\ records[i].attachmentCount # 0
                        /\ records[i].pdfAttachmentCount # 0

\* C7 witness: the handler answered NotReady for a summarized email item that
\* carries neither count
C7_Witness ==
    /\ DetPdfsNow = {}
    /\ Cardinality(DetEmlsNow) = 1
    /\ \A i \in DetEmlsNow :
          /\ HasSummary(records[i])
          /\ records[i].attachmentCount = AbsentNum
          /\ records[i].pdfAttachmentCount = AbsentNum
    /\ tasks["t1"].pc = "done"
    /\ tasks["t1"].outcome = "NotReady"
    /\ tasks["t1"].reason = "none"

RelatedCount(i) ==
    Cardinality({j \in DetPdfsNow : records[j].emlRecordId = i})

Rule3Holds ==
    /\ \A i \in DetEmlsNow : HasSummary(records[i])
    /\ \A j \in DetPdfsNow : HasText(records[j])
    /\ \A i \in DetEmlsNow :
          records[i].pdfAttachmentCount > 0
              => RelatedCount(i) = records[i].pdfAttachmentCount

\* C8: in a session with email items and pdf items the detector answers true
\* exactly when every email item has a non-empty aiSummary, every pdf item a
\* non-empty textContent, and every email item with pdfAttachmentCount > 0
\* has exactly that many pdf items naming it in emlRecordId; when it does not
\* hold the handler ends NotReady.
C8_Rule3Mixed ==
    (DetEmlsNow # {} /\ DetPdfsNow # {}) =>
        /\ IsSessionComplete(DetItemsNow) <=> Rule3Holds
        /\ (tasks["t1"].pc = "done" /\ ~Rule3Holds)
               => tasks["t1"].outcome = "NotReady"
        /\ (tasks["t1"].pc = "done" /\ tasks["t1"].outcome = "NotReady"
              /\ tasks["t1"].reason = "none") => ~Rule3Holds

\* C8 witness: one email item declaring two pdf attachments, one processed
\* pdf item naming it, and the handler ended NotReady
C8_Witness ==
    /\ Cardinality(DetEmlsNow) = 1
    /\ Cardinality(DetPdfsNow) = 1
    /\ \A i \in DetEmlsNow :
          /\ HasSummary(records[i])
          /\ records[i].pdfAttachmentCount = 2
          /\ RelatedCount(i) = 1
    /\ \A j \in DetPdfsNow : HasText(records[j])
    /\ tasks["t1"].pc = "done"
    /\ tasks["t1"].outcome = "NotReady"
    /\ tasks["t1"].reason = "none"

\* C9: for a session without email and pdf items (no items at all, or items
\* of an unrecognized kind only) and when the query fails, the detector
\* answers false and the handler ends NotReady, never with an error.
C9_NoRuleIsIncomplete ==
    /\ (DetEmlsNow = {} /\ DetPdfsNow = {}) =>
          /\ ~IsSessionComplete(DetItemsNow)
          /\ ~checkProcessingCompletion(records, "s1", TRUE)
          /\ tasks["t1"].pc \in {"idle", "check", "done"}
          /\ tasks["t1"].pc = "done" => tasks["t1"].outcome = "NotReady"
    /\ ~checkProcessingCompletion(records, "s1", FALSE)
    /\ tasks["t1"].reason = "check error"
          => /\ tasks["t1"].outcome = "NotReady"
             /\ ~tasks["t1"].isComplete

\* C9 witnesses: the handler ended NotReady on items of an unrecognized kind
\* only; (the empty table and the failed query are reached alike)
C9_Witness ==
    /\ DOMAIN records # {}
    /\ DetEmlsNow = {} /\ DetPdfsNow = {}
    /\ tasks["t1"].pc = "done"
    /\ tasks["t1"].outcome = "NotReady"
    /\ tasks["t1"].reason = "none"

ChangedFields ==
    {f \in DetectorFields :
        \E i \in DOMAIN records : records'[i][f] # records[i][f]}

\* C10 as claimed: once the detector answers true it answers true after any
\* absent field of the items is filled in.
C10_MonotonicAnyField ==
    [][(IsSessionComplete(QueryItems(records, "s1"))
          /\ DOMAIN records' = DOMAIN records)
        => IsSessionComplete(QueryItems(records', "s1"))]_vars

\* C10 as amended: once the detector answers true it answers true after an
\* absent textContent, aiSummary or attachmentCount is filled in (filling in
\* pdfAttachmentCount or emlRecordId can turn the answer to false).
C10_MonotonicEnrichment ==
    [][(IsSessionComplete(QueryItems(records, "s1"))
          /\ DOMAIN records' = DOMAIN records
          /\ ChangedFields \subseteq {"textContent", "aiSummary", "attachmentCount"})
        => IsSessionComplete(QueryItems(records', "s1"))]_vars

\* C10 witness: the session is complete and holds an email item whose
\* attachmentCount was absent at first and is now filled in
C10_Witness ==
    /\ IsSessionComplete(DetItemsNow)
    /\ \E i \in DetEmlsNow :
          /\ records[i].attachmentCount = 1
          /\ records[i].pdfAttachmentCount = 0
    /\ \E j \in DOMAIN records :
          /\ records[j].fileType = AbsentStr
          /\ records[j].textContent = "T"

(***************************************************************************)
(* Properties of the order processor under concurrent invocations.         *)
(***************************************************************************)
Finished(t) == tasks[t].pc = "done"

CreatedFor(s) ==
    {t \in Tasks : tasks[t].sessionId = s /\ tasks[t].outcome = "Created"}

CompleteNow(s) == IsSessionComplete(QueryItems(records, s))

\* C1: when all invocations for one session have found it complete and have
\* ended without a store error or an empty content, exactly one of them ended
\* Created and every other one AlreadyExists.
C1_ExactlyOneCreated ==
    \A s \in Sessions :
        (\A t \in Tasks :
            /\ Finished(t)
            /\ tasks[t].sessionId = s
            /\ tasks[t].isComplete
            /\ tasks[t].reason = "none")
        => /\ Cardinality(CreatedFor(s)) = 1
           /\ \A t \in Tasks \ CreatedFor(s) :
                 tasks[t].outcome = "AlreadyExists"

\* C2: an order that is stored is never changed by a later step.
C2_OrderNeverOverwritten ==
    [][\A s \in Sessions : orders[s] # NoOrder => orders'[s] = orders[s]]_vars

C4_ExtractionFailureWritesNothing ==
    \A t \in Tasks :
        (Finished(t) /\ tasks[t].extraction = "failed")
        => /\ tasks[t].outcome = "Failed"
           /\ tasks[t].puts = 0

\* C5 as claimed: whenever an order is written for a session, the items
\* stored for the session at that moment satisfy the detector.
C5_CompleteAtWrite ==
    [][\A s \in Sessions : orders'[s] # orders[s] => CompleteNow(s)]_vars

\* C5 as amended: an order is written for a session only by an invocation
\* whose readiness check found the items stored for the session at the time
\* of the check complete.
C5_CompleteAtCheck ==
    [][/\ \A t \in Tasks :
            (tasks'[t].isComplete /\ ~tasks[t].isComplete)
            => /\ tasks[t].pc = "check"
               /\ tasks'[t].sessionId = tasks[t].sessionId
               /\ CompleteNow(tasks[t].sessionId)
       /\ \A s \in Sessions :
            orders'[s] # orders[s]
            => \E t \in Tasks :
                  /\ tasks[t].pc = "put"
                  /\ tasks[t].sessionId = s
                  /\ tasks[t].isComplete
                  /\ tasks'[t].outcome = "Created"]_vars

\* C5 witness: an order is stored for a session whose items do not satisfy
\* the detector any more, written by an invocation that had found it complete
C5_Witness ==
    \E t \in Tasks :
        /\ tasks[t].outcome = "Created"
        /\ tasks[t].isComplete
        /\ orders[tasks[t].sessionId] # NoOrder
        /\ ~CompleteNow(tasks[t].sessionId)

(***************************************************************************)
(* Properties of the compiled content.                                     *)
(***************************************************************************)
Compiling(t) == tasks[t].pc \in {"extract", "put"}

\* the n oldest items of a session (items are never removed, so these are
\* the items an earlier query returned n of)
Oldest(s, n) ==
    {i \in DOMAIN records :
        /\ records[i].sessionId = s
        /\ Cardinality({j \in DOMAIN records :
                           records[j].sessionId = s /\ j <= i}) <= n}

RECURSIVE SegmentsById(_)
SegmentsById(I) ==
    IF I = {} THEN ""
    ELSE LET i == CHOOSE x \in I : \A y \in I : x <= y
         IN  RecordSegments(records[i]) \o SegmentsById(I \ {i})

OfKind(I, kind) == {i \in I : records[i].fileType = kind}

\* ids ascend with their prefix first (attachment-, eml-, pdf-) and their
\* creation stamp second
ContentInIdOrder(I) ==
    SegmentsById(OfKind(I, AbsentStr)) \o SegmentsById(OfKind(I, "eml"))
        \o SegmentsById(OfKind(I, "pdf"))

NoSegments(s) ==
    \A i \in DOMAIN records :
        records[i].sessionId = s =>
            /\ ~TruthyStr(records[i].subject)
            /\ ~TruthyStr(records[i].bodyText)
            /\ ~TruthyStr(records[i].textContent)

\* C12: when the items of a session that was found complete yield no
\* segment, createOrder ends at the compilation: the extraction is not
\* called and no order is written; an invocation goes on to the extraction
\* with a content that is not empty.
C12_EmptyContentAborts ==
    [][\A t \in Tasks :
          (tasks[t].pc = "query" /\ tasks'[t] # tasks[t]) =>
              /\ orders' = orders
              /\ tasks'[t].puts = tasks[t].puts
              /\ NoSegments(tasks[t].sessionId) =>
                    /\ tasks'[t].pc = "done"
                    /\ tasks'[t].outcome = "Failed"
                    /\ tasks'[t].reason \in {"no content", "store"}
                    /\ tasks'[t].extraction = "none"
              /\ tasks'[t].reason = "no content"
                    => NoSegments(tasks[t].sessionId)
              /\ tasks'[t].pc = "extract"
                    => /\ ~NoSegments(tasks[t].sessionId)
                       /\ tasks'[t].combinedContent # ""]_vars

\* C12 witness: an invocation found the session of an email without subject
\* and body complete and ended at the empty content; no order is stored
C12_Witness ==
    \E t \in Tasks :
        /\ Finished(t)
        /\ tasks[t].isComplete
        /\ tasks[t].reason = "no content"
        /\ tasks[t].extraction = "none"
        /\ NoSegments(tasks[t].sessionId)
        /\ orders[tasks[t].sessionId] = NoOrder

(***************************************************************************)
(* Properties of the outcomes of one invocation.                           *)
(***************************************************************************)
\* C13: when the items stored for the session do not satisfy the detector
\* at the readiness check, the invocation ends NotReady at that step: it
\* calls no extraction, writes no order and throws nothing out of the
\* handler.
C13_IncompleteIsNotReady ==
    [][\A t \in Tasks :
          (tasks[t].pc = "check" /\ tasks'[t] # tasks[t]
              /\ ~CompleteNow(tasks[t].sessionId)) =>
              /\ tasks'[t].pc = "done"
              /\ tasks'[t].outcome = "NotReady"
              /\ ~tasks'[t].isComplete
              /\ tasks'[t].extraction = "none"
              /\ tasks'[t].puts = 0
              /\ ~tasks'[t].raised
              /\ orders' = orders]_vars

\* C13 witness: an invocation ended NotReady on a session that holds items
\* and is not complete
C13_Witness ==
    \E t \in Tasks :
        /\ Finished(t)
        /\ tasks[t].outcome = "NotReady"
        /\ tasks[t].reason = "none"
        /\ ~tasks[t].raised
        /\ tasks[t].extraction = "none"
        /\ QueryItems(records, tasks[t].sessionId) # <<>>
        /\ ~CompleteNow(tasks[t].sessionId)
        /\ orders[tasks[t].sessionId] = NoOrder

\* C14: an invocation in which a store request failed (the query of the
\* readiness check, the get of the order, the query of createOrder or the
\* put of the order) throws the error out of the handler.
C14_StoreFailureIsRaised ==
    \A t \in Tasks :
        (Finished(t) /\ tasks[t].reason \in {"store", "check error"})
        => tasks[t].raised

\* C16: after an invocation ended in an extraction failure, and while no
\* invocation for the session had a successful extraction, the session has
\* no order, so that a later trigger runs the extraction again.
C16_FailureLeavesUnfinalized ==
    \A s \in Sessions :
        (/\ \E t \in Tasks :
               /\ Finished(t)
               /\ tasks[t].sessionId = s
               /\ tasks[t].extraction = "failed"
         /\ \A t \in Tasks :
               tasks[t].sessionId = s => tasks[t].extraction # "ok")
        => orders[s] = NoOrder

(***************************************************************************)
(* Properties of the records table.                                        *)
(***************************************************************************)
\* C19: no step removes an item of the records table or changes its
\* sessionId, id or fileType; the one change made to a stored item is the
\* aiSummary that the summarizer sets on an email item.
C19_RecordsAppendOnly ==
    [][\A i \in DOMAIN records :
          /\ i \in DOMAIN records'
          /\ records'[i].sessionId = records[i].sessionId
          /\ records'[i].id = records[i].id
          /\ records'[i].fileType = records[i].fileType
          /\ records'[i] # records[i] =>
                /\ records[i].fileType = "eml"
                /\ records'[i].aiSummary \in Summaries
                /\ records'[i]
                      = [records[i] EXCEPT !.aiSummary = records'[i].aiSummary]
                /\ tasks' = tasks]_vars

\* C19 witness: three items are stored and the email item among them has
\* got its summary
C19_Witness ==
    /\ Cardinality(DOMAIN records) = MaxRecords
    /\ \E i \in DOMAIN records :
          /\ records[i].fileType = "eml"
          /\ records[i].aiSummary \in Summaries
    /\ \E j \in DOMAIN records : records[j].fileType = "pdf"

ItemFailed(t) ==
    /\ Finished(t)
    /\ \/ tasks[t].outcome \in {"Failed", "Skipped"}
       \/ tasks[t].extraction = "failed"
       \/ tasks[t].reason = "check error"

AnalyzerItemFailed(a) ==
    /\ analyzer[a].pc = "done"
    /\ \/ analyzer[a].outcome = "Skipped"
       \/ analyzer[a].changesAnalysis = ErrorReport

\* C17: no item of a batch of the order processor or of the order changes
\* processor throws out of the handler, and once the first item has ended,
\* whatever its outcome, the handler takes the second item.
C17_BatchItemsIsolated ==
    /\ \A t \in Tasks : ~tasks[t].raised
    /\ \A a \in AnalyzerItems : ~analyzer[a].raised
    /\ (Finished("t1") /\ tasks["t2"].pc = "idle")
          => ENABLED StartItem("t2")
    /\ (analyzer["a1"].pc = "done" /\ analyzer["a2"].pc = "idle")
          => ENABLED AnalyzerReceive("a2")
    /\ tasks["t2"].pc # "idle" => Finished("t1")
    /\ analyzer["a2"].pc # "idle" => analyzer["a1"].pc = "done"

\* C17 witness: in both batches the first item failed and the second item
\* was handled to its end
C17_Witness ==
    /\ ItemFailed("t1")
    /\ tasks["t1"].reason = "store"
    /\ tasks["t2"].outcome = "Created"
    /\ AnalyzerItemFailed("a1")
    /\ analyzer["a2"].outcome = "Reported"
    /\ analyzer["a2"].changesAnalysis = "changes"

\* C18: the orders table is changed by the put of the order processor only;
\* the steps of the order changes processor, of the summarizer and of the
\* ingestion handlers leave every order as it is.
C18_OnlyOrderProcessorWrites ==
    [][/\ orders' # orders =>
            /\ \E t \in Tasks :
                  /\ tasks[t].pc = "put"
                  /\ tasks'[t].outcome = "Created"
                  /\ orders' = PutItem(orders, tasks[t].orderRecord)
            /\ analyzer' = analyzer
            /\ records' = records
       /\ analyzer' # analyzer => (orders' = orders /\ records' = records)
       /\ records' # records => orders' = orders]_vars

\* C18 witness: the order changes processor has reported on a stored order,
\* and the order is the one the order processor wrote
C18_Witness ==
    \E a \in AnalyzerItems, t \in Tasks :
        /\ analyzer[a].outcome = "Reported"
        /\ tasks[t].outcome = "Created"
        /\ tasks[t].puts = 1
        /\ tasks[t].sessionId = analyzer[a].sessionId
        /\ orders[analyzer[a].sessionId] # NoOrder
        /\ orders[analyzer[a].sessionId].processingStatus = "completed"
        /\ \A u \in Tasks \ {t} : tasks[u].puts = 0

(***************************************************************************)
(* Properties of the triggers under stale reads.                           *)
(***************************************************************************)
\* every message is handled, no invocation is running and the replica has
\* caught up with the table: nothing but a new upload leads to a new step
Quiescent ==
    /\ \A s \in Sessions : queue[s] = 0
    /\ \A t \in Tasks : tasks[t].pc \in {"idle", "done"}
    /\ replica = records

\* C15: when every trigger has been handled and the reads reflect all
\* writes, a session that is complete and whose last invocation met no
\* error has an order.
C15_QuiescentCompleteHasOrder ==
    \A s \in Sessions :
        (/\ Quiescent
         /\ CompleteNow(s)
         /\ \A t \in Tasks :
               /\ tasks[t].reason = "none"
               /\ tasks[t].extraction # "failed")
        => orders[s] # NoOrder

(***************************************************************************)
(* Properties of the steps of one invocation.                              *)
(***************************************************************************)
BeforePut == {"check", "get", "query", "extract"}

\* C21: an order is written only by the put of an invocation that found the
\* session complete, found no order, compiled a content and got the result
\* of a successful extraction; the put is the first write and the last step
\* of the invocation, and every earlier step of an invocation leaves the
\* orders table and the records table as they are (so an invocation that is
\* cut off before its put has changed nothing).
C21_WriteLastAfterFullSuccess ==
    [][/\ \A s \in Sessions :
            orders'[s] # orders[s] =>
                \E t \in Tasks :
                    /\ tasks[t].pc = "put"
                    /\ tasks[t].sessionId = s
                    /\ tasks[t].isComplete
                    /\ tasks[t].combinedContent # ""
                    /\ tasks[t].extraction = "ok"
                    /\ tasks[t].puts = 0
                    /\ tasks'[t].puts = 1
                    /\ tasks'[t].pc = "done"
       /\ \A t \in Tasks :
            (tasks[t].pc \in BeforePut /\ tasks'[t] # tasks[t])
            => (orders' = orders /\ records' = records)]_vars

\* C22: the content from which an invocation extracts the data of the order
\* is compiled from exactly the items on which its readiness check answered
\* true, whatever is stored for the session between the check and the
\* compilation.
C22_CompiledFromCheckedItems ==
    [][\A t \in Tasks :
          (tasks[t].pc = "query" /\ tasks'[t].pc = "extract") =>
              /\ tasks'[t].recordCount = tasks[t].checkedCount
              /\ tasks'[t].combinedContent
                     = ContentInIdOrder(Oldest(tasks[t].sessionId,
                                               tasks[t].checkedCount))]_vars

(***************************************************************************)
(* Further properties of the detector.                                     *)
(***************************************************************************)
\* an email item declares a positive number of pdf attachments and another
\* number of pdf items name it
Mismatched ==
    \E i \in DetEmlsNow :
        /\ records[i].pdfAttachmentCount > 0
        /\ RelatedCount(i) # records[i].pdfAttachmentCount

\* C23: while a session with email items and pdf items holds an email item
\* whose positive pdfAttachmentCount differs from the number of pdf items
\* that name it (fewer or more), the detector answers false, the handler
\* ends NotReady without reaching createOrder, and the session has no order.
C23_MismatchNeverFinalizes ==
    (DetEmlsNow # {} /\ DetPdfsNow # {} /\ Mismatched) =>
        /\ ~IsSessionComplete(DetItemsNow)
        /\ ~checkProcessingCompletion(records, "s1", TRUE)
        /\ ~tasks["t1"].isComplete
        /\ tasks["t1"].pc \in {"idle", "check", "done"}
        /\ Finished("t1") => tasks["t1"].outcome = "NotReady"
        /\ orders["s1"] = NoOrder

\* C23 witness: an email item declares one pdf attachment, two processed pdf
\* items name it, and the handler ended NotReady; no order is stored
C23_Witness ==
    /\ Cardinality(DetEmlsNow) = 1
    /\ Cardinality(DetPdfsNow) = 2
    /\ \A i \in DetEmlsNow :
          /\ HasSummary(records[i])
          /\ records[i].pdfAttachmentCount = 1
          /\ RelatedCount(i) = 2
    /\ \A j \in DetPdfsNow : HasText(records[j])
    /\ Finished("t1")
    /\ tasks["t1"].outcome = "NotReady"
    /\ tasks["t1"].reason = "none"
    /\ orders["s1"] = NoOrder

\* a pdf item without text, or an email item without summary
Unprocessed(r) ==
    \/ r.fileType = "pdf" /\ ~HasText(r)
    \/ r.fileType = "eml" /\ ~HasSummary(r)

Without(tbl, i) == [j \in DOMAIN tbl \ {i} |-> tbl[j]]

\* the table is a complete session to which the unprocessed item i was added
InsertedInto(i) ==
    /\ Unprocessed(records[i])
    /\ IsSessionComplete(QueryItems(Without(records, i), "s1"))

\* C24: when the items of a session satisfy the detector and one item that
\* is not processed yet is added (a pdf item whose textContent is empty or
\* absent, or an email item whose aiSummary is empty or absent), the
\* detector answers false on the larger set and the handler ends NotReady.
C24_InsertUnprocessedBreaks ==
    \A i \in DOMAIN records :
        InsertedInto(i) =>
            /\ ~IsSessionComplete(DetItemsNow)
            /\ ~tasks["t1"].isComplete
            /\ Finished("t1") => tasks["t1"].outcome = "NotReady"

\* C24 witness: a summarized email item and a processed pdf item are
\* complete, a pdf item with an empty text is stored with them, and the
\* handler ended NotReady
C24_Witness ==
    /\ Cardinality(DOMAIN records) = 3
    /\ Cardinality(DetEmlsNow) = 1
    /\ \E i \in DetPdfsNow :
          /\ records[i].textContent = ""
          /\ InsertedInto(i)
    /\ Finished("t1")
    /\ tasks["t1"].outcome = "NotReady"
    /\ tasks["t1"].reason = "none"

(***************************************************************************)
(* Properties of the order changes processor.                              *)
(***************************************************************************)
\* C25: a request to the external API that fails or is answered with a
\* status that is not ok yields null, and the item goes on with that null:
\* every fetch step leads to the analysis, and every analysis step that
\* follows ends the item with a report.
C25_FetchFailureStillAnalyzes ==
    [][/\ getCargoSynqRecord("request error") = "null"
       /\ getCargoSynqRecord("not ok") = "null"
       /\ \A a \in AnalyzerItems :
            /\ (analyzer[a].pc = "fetch" /\ analyzer'[a] # analyzer[a]) =>
                   /\ analyzer'[a].pc = "analyze"
                   /\ analyzer'[a].existingRecord \in {"null", "snapshot"}
                   /\ analyzer'[a].sessionId = analyzer[a].sessionId
                   /\ analyzer'[a].currentOrder = analyzer[a].currentOrder
            /\ (analyzer[a].pc = "analyze" /\ analyzer'[a] # analyzer[a]) =>
                   /\ analyzer'[a].pc = "done"
                   /\ analyzer'[a].outcome = "Reported"
                   /\ analyzer'[a].changesAnalysis \in {ErrorReport, "changes"}
                   /\ ~analyzer'[a].raised]_vars

\* C25 witness: the external API gave no record for the order of the first
\* item, and the item is at the analysis with null as the existing record
C25_Witness ==
    /\ analyzer["a1"].pc = "analyze"
    /\ analyzer["a1"].existingRecord = "null"
    /\ analyzer["a1"].currentOrder # NoOrder
    /\ analyzer["a1"].currentOrder = orders[analyzer["a1"].sessionId]

\* the replies that carry one JSON text, alone, between whitespace or
\* wrapped in a code fence
JsonReplies ==
    { <<"{A}">>, <<WS, "{A}", WS>>,
      <<FenceJson, WS, "{A}", WS, Fence>>, <<Fence, "{A}", Fence>> }

WellFormedReply(response) ==
    ~response.error /\ response.content \in JsonReplies

\* C26: for every reply of the completion call that is an error, has no
\* content or does not carry well-formed JSON (after the code fence is
\* stripped), analyzeChanges returns the report with the error marker and
\* throws nothing; no item of the order changes processor ends in an error
\* thrown by the analysis.
C26_AnalysisFailureIsReported ==
    /\ \A response \in Responses :
          ~WellFormedReply(response) =>
              /\ analyzeChanges(response) = ErrorReport
              /\ ~AnalysisThrows(response)
    /\ \A a \in AnalyzerItems :
          /\ analyzer[a].outcome # "Failed"
          /\ ~analyzer[a].raised
          /\ analyzer[a].outcome = "Reported"
                => analyzer[a].changesAnalysis \in {ErrorReport, "changes"}
          /\ analyzer[a].changesAnalysis # "none"
                => analyzer[a].outcome = "Reported"

\* C26 witness: an item ended with the report that carries the error marker
C26_Witness ==
    \E a \in AnalyzerItems :
        /\ analyzer[a].pc = "done"
        /\ analyzer[a].outcome = "Reported"
        /\ analyzer[a].changesAnalysis = ErrorReport
        /\ ~analyzer[a].raised
        /\ orders[analyzer[a].sessionId] # NoOrder

(***************************************************************************)
(* Properties of the decoding of the trigger.                              *)
(***************************************************************************)
\* C27: a message whose body does not parse, has no NewImage, or lacks the
\* id, the fileType or the sessionId ends its item at the decoding: the
\* item takes no session, runs no query, no get, no extraction and no put,
\* leaves both tables as they are and throws nothing out of the handler.
C27_MalformedIsSkipped ==
    [][\A t \in Tasks :
          /\ tasks'[t].outcome = "Skipped" =>
                /\ tasks'[t].pc = "done"
                /\ tasks'[t].reason \in MalformedTriggers
                /\ tasks'[t].sessionId = "<none>"
                /\ ~tasks'[t].isComplete
                /\ tasks'[t].checkedCount = 0
                /\ tasks'[t].extraction = "none"
                /\ tasks'[t].puts = 0
                /\ ~tasks'[t].raised
          /\ (tasks'[t].outcome = "Skipped" /\ tasks[t].outcome # "Skipped") =>
                /\ tasks[t].pc = "idle"
                /\ orders' = orders
                /\ records' = records]_vars

\* C27 witness: the first message of a batch lacked the fileType and the
\* second one did not parse; both items were skipped, with items stored and
\* no order written
C27_Witness ==
    /\ tasks["t1"].outcome = "Skipped"
    /\ tasks["t1"].reason = "no fileType"
    /\ tasks["t2"].outcome = "Skipped"
    /\ tasks["t2"].reason = "unparsable"
    /\ \A t \in Tasks : Finished(t) /\ ~tasks[t].raised
    /\ DOMAIN records # {}
    /\ \A s \in Sessions : orders[s] = NoOrder

\* the triggers that the stream rules can fire for the items of a session
TriggersOf(s) == {i \in Triggers(records) : records[i].sessionId = s}

\* C28: what an invocation decides at its readiness check is what the check
\* answers, from the same tables, for every other trigger of the same
\* session, whatever item and kind of item that trigger names; and what the
\* invocation does after the check is decided by the answer and by the
\* order stored for the session: createOrder is entered exactly on a true
\* answer and ends AlreadyExists exactly when an order is stored.
C28_OutcomeIndependentOfTrigger ==
    [][\A t \in Tasks :
          /\ (tasks[t].pc = "check" /\ tasks'[t] # tasks[t]) =>
                /\ \A i \in TriggersOf(tasks[t].sessionId) :
                      LET other == CheckForTrigger(records, tasks[t].sessionId,
                                                   i, records[i].fileType, TRUE)
                      IN  /\ tasks'[t].isComplete => other
                          /\ (~tasks'[t].isComplete
                                 /\ tasks'[t].reason # "check error") => ~other
                /\ tasks'[t].pc = IF tasks'[t].isComplete THEN "get" ELSE "done"
                /\ ~tasks'[t].isComplete => tasks'[t].outcome = "NotReady"
          /\ (tasks[t].pc = "get" /\ tasks'[t] # tasks[t]) =>
                /\ tasks'[t].outcome = "AlreadyExists"
                      => orders[tasks[t].sessionId] # NoOrder
                /\ tasks'[t].pc = "query"
                      => orders[tasks[t].sessionId] = NoOrder
                /\ tasks'[t].outcome \notin {"AlreadyExists", "none"}
                      => (tasks'[t].outcome = "Failed"
                            /\ tasks'[t].reason = "store")]_vars

\* C28 witness: two invocations for one session, one on the trigger of an
\* email item and one on the trigger of a pdf item, have both found the
\* session complete
C28_Witness ==
    /\ tasks["t1"].pc = "get" /\ tasks["t2"].pc = "get"
    /\ tasks["t1"].sessionId = tasks["t2"].sessionId
    /\ tasks["t1"].recordId # tasks["t2"].recordId
    /\ tasks["t1"].fileType = "eml" /\ tasks["t2"].fileType = "pdf"
    /\ tasks["t1"].isComplete /\ tasks["t2"].isComplete
    /\ CompleteNow(tasks["t1"].sessionId)

(***************************************************************************)
(* Termination of one invocation.                                          *)
(***************************************************************************)
Rank(pc) ==
    CASE pc = "idle" -> 0
      [] pc = "check" -> 1
      [] pc = "get" -> 2
      [] pc = "query" -> 3
      [] pc = "extract" -> 4
      [] pc = "put" -> 5
      [] pc = "done" -> 6

Outcomes == {"Created", "AlreadyExists", "NotReady", "Failed"}

\* an invocation that has started and has not ended can take its next step
CanStep(t) ==
    ENABLED (\/ CheckCompletion(t) \/ GetOrder(t) \/ QueryAndCompile(t)
             \/ ExtractOrderData(t) \/ PutOrder(t))

\* C29: an invocation that has started can always take its next step, every
\* step moves it forward in the order check, get, query, extract, put, done
\* (no step is taken twice and none leads back), it ends with exactly one of
\* Created, AlreadyExists, NotReady and Failed, the extraction is called in
\* one step at most and the order is written in one step at most.
C29_InvocationTerminates ==
    [][\A t \in Tasks :
          /\ tasks[t].pc \notin {"idle", "done"} => CanStep(t)
          /\ tasks'[t] # tasks[t] =>
                /\ Rank(tasks'[t].pc) > Rank(tasks[t].pc)
                /\ tasks'[t].pc = "done" <=> tasks'[t].outcome \in Outcomes
                /\ tasks'[t].pc # "done" => tasks'[t].outcome = "none"
                /\ tasks'[t].extraction # tasks[t].extraction
                      => (tasks[t].pc = "extract"
                            /\ tasks[t].extraction = "none")
                /\ tasks'[t].puts # tasks[t].puts
                      => (tasks[t].pc = "put" /\ tasks[t].puts = 0
                            /\ tasks'[t].puts = 1)]_vars

\* C29 witness: one invocation ended Failed at its put, after its
\* extraction, and the other one ended Created with one extraction and one
\* write
C29_Witness ==
    \E t, u \in Tasks :
        /\ Finished(t) /\ Finished(u)
        /\ tasks[t].outcome = "Failed"
        /\ tasks[t].reason = "store"
        /\ tasks[t].extraction = "ok"
        /\ tasks[t].puts = 0
        /\ tasks[u].outcome = "Created"
        /\ tasks[u].extraction = "ok"
        /\ tasks[u].puts = 1

(***************************************************************************)
(* Properties of the session ids.                                          *)
(***************************************************************************)
\* the session id that the email processor derives for the object s
SessionOf(s) == generateSessionId(objects[s].objectKey, objects[s].etag)

\* C30: the three handlers derive the same session id from the same key and
\* ETag; after every step all items written for the uploaded object (the
\* email item and the items of its attachments, or the pdf item) carry that
\* one id, and no step changes the sessionId of an item that is stored.
C30_OneSessionPerEvent ==
    [][/\ \A objectKey \in ObjectKeys, etag \in ETags :
            /\ generateSessionIdOfExtractor(objectKey, etag)
                   = generateSessionId(objectKey, etag)
            /\ generateSessionIdOfPdfProcessor(objectKey, etag)
                   = generateSessionId(objectKey, etag)
       /\ \A i \in DOMAIN records :
            /\ i \in DOMAIN records'
            /\ records'[i].sessionId = records[i].sessionId
       /\ \A i \in DOMAIN records' :
            /\ records'[i].sessionId = SessionOf("s1")
            /\ Len(records'[i].sessionId) <= SessionIdLength + 1
            /\ \A k \in 1..Len(records'[i].sessionId) :
                  records'[i].sessionId[k] \notin Quotes]_vars

\* C30 witness: an email with a quoted ETag of more than 16 characters and
\* two attachments has its email item, summarized, and its two attachment
\* items stored, all three under the id derived from the ETag
C30_Witness ==
    /\ objects["s1"].kind = "eml"
    /\ Len(objects["s1"].etag) > SessionIdLength
    /\ objects["s1"].etag[1] \in Quotes
    /\ Cardinality(DOMAIN records) = 3
    /\ \E i, j, k \in DOMAIN records :
          /\ records[i].fileType = "eml"
          /\ records[i].aiSummary \in Summaries
          /\ records[j].fileType = "pdf"
          /\ records[k].fileType = AbsentStr
    /\ \A i \in DOMAIN records :
          records[i].sessionId
              = <<"session-">> \o Run(SessionIdLength, 0)

(***************************************************************************)
(* Fenced replies and replies that do not parse.                           *)
(***************************************************************************)
\* a reply that holds one JSON value between a leading and a closing fence
FencedJson(response) ==
    /\ ~response.error
    /\ response.content # NoContent
    /\ Len(response.content) >= 3
    /\ Head(response.content) \in {FenceJson, Fence}
    /\ response.content[Len(response.content)] = Fence
    /\ JsonParses(SubSeq(response.content, 2, Len(response.content) - 1))

\* a reply with a content that JSON.parse rejects after the fences are removed
ParseFails(response) ==
    /\ ~response.error
    /\ response.content \notin {NoContent, <<>>}
    /\ ~JsonParses(CleanedContent(response.content))

\* the step of the invocation t is the return of extractOrderData on response
ExtractedFrom(t, response) ==
    /\ tasks[t].pc = "extract"
    /\ tasks'[t].pc # "extract"
    /\ tasks'[t].extraction =
           (IF ExtractionFails(response) THEN "failed" ELSE "ok")
    /\ tasks'[t].orderRecord.sessionId = tasks[t].sessionId
          => tasks'[t].orderRecord.extractedData = extractOrderData(response)

\* C31 (first half): on a fenced reply the fences are removed, the parse
\* succeeds and the invocation goes on to the put with the parsed object as
\* the extractedData of the order.
C31_FencedReplyIsParsed ==
    [][\A t \in Tasks : \A response \in Responses :
          (ExtractedFrom(t, response) /\ FencedJson(response))
          => /\ tasks'[t].pc = "put"
             /\ tasks'[t].extraction = "ok"
             /\ tasks'[t].orderRecord.extractedData
                    = ParsedObject(response.content[Len(response.content) - 1
                          - (IF response.content[Len(response.content) - 1] = WS
                             THEN 1 ELSE 0)])]_vars

\* C31: a fenced reply is parsed as above, and on a reply that still does
\* not parse the extraction is an error: the invocation does not go on to
\* the put of an order and ends Failed.
C31_FencedParsedElseError ==
    [][\A t \in Tasks : \A response \in Responses :
          /\ (ExtractedFrom(t, response) /\ FencedJson(response))
             => /\ tasks'[t].pc = "put"
                /\ tasks'[t].orderRecord.extractedData # EmptyObject
          /\ (ExtractedFrom(t, response) /\ ParseFails(response))
             => /\ tasks'[t].pc = "done"
                /\ tasks'[t].outcome = "Failed"]_vars

\* a fenced reply was parsed and its object is stored in the order
C31_FencedStored ==
    \E s \in Sessions :
        /\ orders[s] # NoOrder
        /\ orders[s].extractedData = ParsedObject("{A}")

(***************************************************************************)
(* Isolation of sessions.                                                  *)
(***************************************************************************)
\* the items stored under the session s, in the order of their sort keys
OwnItems(s) ==
    SortBySortKey({records[i] :
                      i \in {j \in DOMAIN records : records[j].sessionId = s}})

\* the session of the trigger that the invocation t handles in this step
SessionOfStep(t) ==
    IF tasks[t].pc \in {"idle", "done"}
    THEN tasks'[t].sessionId ELSE tasks[t].sessionId

\* C32: a step of an invocation for the session A changes no item of the
\* records table and no order of another session, writes at most the order
\* keyed by A, and what it decides and compiles is determined by the items
\* and the order stored under A alone.
C32_SessionsIsolated ==
    [][\A t \in Tasks :
          tasks'[t] # tasks[t] =>
          LET A == SessionOfStep(t)
          IN  /\ records' = records
              /\ \A B \in Sessions \ {A} : orders'[B] = orders[B]
              /\ orders'[A] # orders[A] => orders'[A].sessionId = A
              /\ (tasks[t].pc = "check" /\ tasks'[t].pc = "get")
                 => IsSessionComplete(OwnItems(A))
              /\ (tasks[t].pc = "check" /\ tasks'[t].outcome = "NotReady"
                     /\ tasks'[t].reason = "none")
                 => ~IsSessionComplete(OwnItems(A))
              /\ (tasks[t].pc = "get" /\ tasks'[t].pc = "query")
                 => orders[A] = NoOrder
              /\ (tasks[t].pc = "get" /\ tasks'[t].outcome = "AlreadyExists")
                 => orders[A] # NoOrder
              /\ (tasks[t].pc = "query" /\ tasks'[t].pc = "extract")
                 => /\ tasks'[t].combinedContent = Compile(OwnItems(A))
                    /\ tasks'[t].recordCount = Len(OwnItems(A))]_vars

\* C32 witness: the two invocations are at their puts, one for each session,
\* with three items stored and no order yet; each compiled the items of its
\* own session only
C32_Witness ==
    /\ tasks["t1"].pc = "put" /\ tasks["t1"].sessionId = "s1"
    /\ tasks["t2"].pc = "put" /\ tasks["t2"].sessionId = "s2"
    /\ Cardinality(DOMAIN records) = 3
    /\ tasks["t1"].recordCount + tasks["t2"].recordCount = 3
    /\ tasks["t1"].recordCount = Len(OwnItems("s1"))
    /\ orders["s1"] = NoOrder
    /\ orders["s2"] = NoOrder

(***************************************************************************)
(* The pipeline comes to rest.                                             *)
(***************************************************************************)
\* no message is pending and no handler is running
Quiet ==
    /\ queue = NoMessage
    /\ tasks["t1"].pc \in {"idle", "done"}
    /\ analyzer["a1"].pc \in {"idle", "done"}

\* C33: an item of the records table is changed only by the summarizer, on
\* the INSERT message of an email item, and the update fires no message for
\* the summarizer again; no step of the order processor changes the records
\* table and no step of the order changes processor changes any table; and
\* once every object-created event is handled the pipeline reaches a state
\* without pending messages and running handlers, which nothing leaves.
C33_NoFeedbackLoop ==
    /\ [][/\ \A i \in DOMAIN records :
                /\ i \in DOMAIN records'
                /\ records'[i] # records[i]
                   => /\ records[i].fileType = "eml"
                      /\ i \in queue.emailSummary
                      /\ i \notin queue'.emailSummary
                      /\ records'[i] =
                            [records[i] EXCEPT
                                !.aiSummary = records'[i].aiSummary]
          /\ tasks' # tasks => records' = records
          /\ analyzer' # analyzer => (records' = records /\ orders' = orders)
          /\ Quiet => (Quiet' /\ records' = records /\ orders' = orders)]_vars
    /\ <>[]Quiet

\* C33 witness: the event of an email was handled twice; both email items
\* are summarized, an order is stored, the order changes processor has
\* reported on it, and nothing is pending
C33_Witness ==
    /\ Quiet
    /\ Cardinality(DOMAIN records) = 2
    /\ \A i \in DOMAIN records :
          records[i].fileType = "eml" /\ records[i].aiSummary \in Summaries
    /\ orders["s1"] # NoOrder
    /\ analyzer["a1"].outcome = "Reported"

(***************************************************************************)
(* Enrichments that failed.                                                *)
(***************************************************************************)
\* what the summarizer stores when the summary cannot be generated, and what
\* the attachment extractor stores when the pdf cannot be parsed
SummaryFallback == "Summary generation failed - AI service unavailable"
PdfTextFallback == "PDF content extraction failed"

\* the item with a generated summary and a parsed text in place of the
\* fallbacks
Enriched(r) ==
    [r EXCEPT !.aiSummary = IF @ = SummaryFallback
                            THEN "Email from a@b.c: order" ELSE @,
              !.textContent = IF @ = PdfTextFallback THEN "INVOICE" ELSE @]

\* the session holds email items and pdf items, and every one of them
\* carries the fallback of its enrichment
AllFallbacks(items) ==
    /\ \E k \in 1..Len(items) : IsEml(items[k])
    /\ \E k \in 1..Len(items) : IsPdf(items[k])
    /\ \A k \in 1..Len(items) :
          /\ IsEml(items[k]) => items[k].aiSummary = SummaryFallback
          /\ IsPdf(items[k]) => items[k].textContent = PdfTextFallback

\* C34: the detector answers for a session as it would if every fallback
\* were a generated summary or a parsed text, and a session of email items
\* and pdf items that all carry the fallbacks is complete.
C34_FallbackCountsAsProcessed ==
    LET items == QueryItems(records, "s1")
    IN  /\ IsSessionComplete(items)
              = IsSessionComplete([k \in 1..Len(items) |-> Enriched(items[k])])
        /\ AllFallbacks(items) => IsSessionComplete(items)

\* C34 witness: the summary of the email and the parse of its pdf attachment
\* both failed, and an invocation has created the order of the session from
\* the two items
C34_Witness ==
    /\ AllFallbacks(QueryItems(records, "s1"))
    /\ Len(QueryItems(records, "s1")) = 2
    /\ orders["s1"] # NoOrder
    /\ orders["s1"].recordCount = 2
    /\ \E t \in Tasks : tasks[t].outcome = "Created"

(***************************************************************************)
(* Orders created before the session has all its items.                    *)
(***************************************************************************)
\* no email item declares a positive number of pdf attachments, at least one
\* pdf item is stored, and every stored email item and pdf item is enriched
EnrichedSoFar(items) ==
    /\ \E k \in 1..Len(items) : IsPdf(items[k])
    /\ \A k \in 1..Len(items) :
          /\ IsEml(items[k])
             => /\ EmlSummarized(items[k])
                /\ ~(TruthyNum(items[k].pdfAttachmentCount)
                       /\ items[k].pdfAttachmentCount > 0)
          /\ IsPdf(items[k]) => PdfProcessed(items[k])

\* the step inserts an item into the session s
InsertsInto(s) ==
    \E i \in DOMAIN records' \ DOMAIN records : records'[i].sessionId = s

\* the invocation t has passed its existence check for the session s and has
\* not yet read the items that it compiles
BeforeCompile(t, s) == tasks[t].sessionId = s /\ tasks[t].pc = "query"

\* C35 (readiness): with no positive declared count, a session with a pdf
\* item is complete as soon as every stored email item and pdf item is
\* enriched.
C35_ReadyOnceEnriched ==
    EnrichedSoFar(QueryItems(records, "s1"))
        => IsSessionComplete(QueryItems(records, "s1"))

\* C35: readiness as above, and an item inserted once the order of its
\* session exists is never included in the order: when it is inserted, no
\* invocation is left that has found the order missing and has still to read
\* the items, and no order that is stored is written again with more items.
C35_LateItemNeverIncluded ==
    /\ []C35_ReadyOnceEnriched
    /\ [][\A s \in Sessions :
             /\ (InsertsInto(s) /\ orders[s] # NoOrder)
                => \A t \in Tasks : ~BeforeCompile(t, s)
             /\ (orders[s] # NoOrder /\ orders'[s] # orders[s])
                => orders'[s].recordCount <= orders[s].recordCount]_vars

\* an order was created from the first pdf attachment of an email with two
\* attachments, before the email item and the second attachment were stored
C35_EarlyOrder ==
    /\ objects["s1"].kind = "eml"
    /\ Len(objects["s1"].attachments) = 2
    /\ Cardinality(DOMAIN records) = 1
    /\ orders["s1"] # NoOrder
    /\ orders["s1"].recordCount = 1

\* an order created from one item was written again by an invocation that
\* had passed its existence check before, with the item inserted since
C35_LateItemIncluded ==
    /\ orders["s1"] # NoOrder
    /\ orders["s1"].recordCount = 2
    /\ \A t \in Tasks : tasks[t].outcome = "Created" /\ tasks[t].puts = 1

(***************************************************************************)
(* Events that are handled again.                                          *)
(***************************************************************************)
\* the step stores one more item, under a new id and in the session s, and
\* leaves the stored items as they are
StoresOneMore(s) ==
    /\ Cardinality(DOMAIN records') = Cardinality(DOMAIN records) + 1
    /\ \A i \in DOMAIN records : i \in DOMAIN records' /\ records'[i] = records[i]
    /\ \A i \in DOMAIN records' \ DOMAIN records : records'[i].sessionId = s

\* an item of the kind that the handler of the object s writes is stored
HandledBefore(s) ==
    \E i \in DOMAIN records :
        /\ records[i].sessionId = s
        /\ records[i].fileType = objects[s].kind

\* every attachment of the email s has been stored at least once
ExtractedBefore(s) ==
    /\ objects[s].kind = "eml"
    /\ extractor[s] = 0
    /\ Len(objects[s].attachments) > 0
    /\ Cardinality({i \in DOMAIN records : records[i].sessionId = s
                                           /\ records[i].fileType # "eml"})
          >= Len(objects[s].attachments)

\* C36: as long as the table of the model has room, the event of an object
\* that was handled before can be handled again, by each of the three
\* handlers, and this stores one more item under a new id in the same
\* session; when the session of an email is complete, the item that the
\* email processor stores on the repeated event makes it incomplete.
C36_RedeliveryInsertsAgain ==
    \A s \in Sessions :
        Cardinality(DOMAIN records) < MaxRecords =>
        /\ (HandledBefore(s) /\ objects[s].kind = "eml")
           => ENABLED (ProcessEml(s) /\ UNCHANGED queue /\ StoresOneMore(s))
        /\ (HandledBefore(s) /\ objects[s].kind = "pdf")
           => ENABLED (ProcessPdf(s) /\ UNCHANGED queue /\ StoresOneMore(s))
        /\ ExtractedBefore(s)
           => ENABLED (ExtractAttachment(s) /\ UNCHANGED queue
                          /\ StoresOneMore(s))
        /\ (objects[s].kind = "eml" /\ IsSessionComplete(QueryItems(records, s)))
           => ENABLED (ProcessEml(s) /\ UNCHANGED queue
                          /\ ~IsSessionComplete(QueryItems(records', s)))

\* C36 witness: the event of an email without attachments was handled twice;
\* the two email items differ in their id only until the first is
\* summarized, the session was complete with the first item alone and is not
\* complete with both
C36_Witness ==
    /\ DOMAIN records = {1, 2}
    /\ records[1].fileType = "eml" /\ records[2].fileType = "eml"
    /\ records[1].sessionId = records[2].sessionId
    /\ [records[2] EXCEPT !.id = 1, !.aiSummary = records[1].aiSummary]
           = records[1]
    /\ IsSessionComplete(<<records[1]>>)
    /\ ~IsSessionComplete(QueryItems(records, "s1"))

(***************************************************************************)
(* Failures in a batch of object-created events.                           *)
(***************************************************************************)
\* the step ends the handling of a message with an error
FailsMessage ==
    /\ Len(queue'.outcomes) = Len(queue.outcomes) + 1
    /\ queue'.outcomes[Len(queue'.outcomes)] = "failed"

\* C37: in the two email handlers an error on one message ends the
\* invocation as failed, no further message of that delivery is handled, and
\* the batch is delivered again from its first message; in the pdf handler
\* an error on one message stores nothing, does not end the invocation, and
\* the next message is handled.
C37_EmailRethrowsPdfSwallows ==
    /\ []((/\ queue.handler = "pdf-content-processor"
           /\ queue.outcomes # <<>>
           /\ queue.outcomes[Len(queue.outcomes)] = "failed"
           /\ queue.position <= Len(Messages))
          => ENABLED IngestStores)
    /\ [][/\ (FailsMessage /\ queue.handler # "pdf-content-processor")
             => /\ queue'.status = "failed"
                /\ queue'.position = queue.position
          /\ queue.status = "failed"
             => /\ records' = records
                /\ queue'.position = 1
                /\ queue'.outcomes = <<>>
                /\ queue'.handler = queue.handler
          /\ (FailsMessage /\ queue.handler = "pdf-content-processor")
             => /\ records' = records
                /\ queue'.position = queue.position + 1
                /\ queue'.status # "failed"]_vars

\* C37 witness: the email processor stored the item of the first email,
\* failed on the second, and the batch was delivered again and handled to
\* its end, so the first email has two items and the second one
C37_Witness ==
    /\ queue.handler = "eml-processor"
    /\ queue.deliveries = 2
    /\ queue.status = "succeeded"
    /\ Cardinality({i \in DOMAIN records : records[i].sessionId = "s1"}) = 2
    /\ Cardinality({i \in DOMAIN records : records[i].sessionId = "s2"}) = 1

\* the pdf processor failed on the first pdf and stored the second one
C37_PdfBatchGoesOn ==
    /\ queue.handler = "pdf-content-processor"
    /\ queue.outcomes = <<"failed", "stored">>
    /\ queue.status = "succeeded"
    /\ queue.deliveries = 1
    /\ \A i \in DOMAIN records : records[i].sessionId = "s2"
    /\ Cardinality(DOMAIN records) = 1

(***************************************************************************)
(* What the order changes processor analyzes.                              *)
(***************************************************************************)
\* C38: an item is reported only with an order that the get of the handler
\* read from the table under the sessionId of the event; without one the
\* item ends at the get, before the external API and the completion call;
\* and the new data in the prompt is the extractedData of that order, not
\* the extractedData of the NewImage.
C38_AnalyzesStoredOrder ==
    [][\A a \in AnalyzerItems :
          /\ (analyzer[a].pc = "get" /\ analyzer'[a] # analyzer[a])
             => IF analyzer'[a].pc = "fetch"
                THEN /\ orders[analyzer[a].sessionId] # NoOrder
                     /\ analyzer'[a].currentOrder = orders[analyzer[a].sessionId]
                ELSE /\ analyzer'[a].pc = "done"
                     /\ analyzer'[a].outcome = "Skipped"
                     /\ analyzer'[a].existingRecord = "none"
                     /\ analyzer'[a].changesAnalysis = "none"
          /\ (analyzer[a].pc = "get" /\ orders[analyzer[a].sessionId] = NoOrder)
             => analyzer'[a].pc \in {"get", "done"}
          /\ (analyzer[a].pc # "done" /\ analyzer'[a].outcome = "Reported")
             => /\ analyzer[a].pc = "analyze"
                /\ analyzer[a].currentOrder # NoOrder
                /\ analyzer[a].currentOrder.sessionId = analyzer[a].sessionId
                /\ analyzer'[a].analyzed
                       = analyzer[a].currentOrder.extractedData]_vars

\* C38 witness: the event of the first item carried an extractedData that
\* differs from that of the stored order, and the item was reported on the
\* data of the stored order; the second item, for a session without an
\* order, was skipped at the get
C38_Witness ==
    /\ analyzer["a1"].outcome = "Reported"
    /\ analyzer["a1"].sessionId = "s1"
    /\ analyzer["a1"].newImage = ParsedObject("{B}")
    /\ analyzer["a1"].analyzed = ParsedObject("{A}")
    /\ orders["s1"].extractedData = ParsedObject("{A}")
    /\ orders["s2"] = NoOrder
    /\ analyzer["a2"].sessionId = "s2"
    /\ analyzer["a2"].outcome = "Skipped"
    /\ analyzer["a2"].reason = "order not found"
    /\ analyzer["a2"].changesAnalysis = "none"

(***************************************************************************)
(* C39.  Every order that the order processor writes has the status        *)
(* "completed", the recordCount of the items that the compile step read    *)
(* for the session, and the csid "unknown", whatever csid the items of the *)
(* session carry; and every request of the order changes processor for the *)
(* previous snapshot has the key "unknown", never the sessionId.           *)
(***************************************************************************)
SessionItems(s) == {i \in DOMAIN records : records[i].sessionId = s}

C39_OrderCsidUnknown ==
    /\ [](\A s \in Sessions :
            orders[s] # NoOrder =>
                /\ orders[s].processingStatus = "completed"
                /\ orders[s].csid = "unknown")
    /\ [][/\ \A t \in Tasks :
               (tasks[t].pc = "query" /\ tasks'[t].pc = "extract") =>
                   tasks'[t].recordCount =
                       Cardinality(SessionItems(tasks[t].sessionId))
          /\ \A t \in Tasks :
               (tasks[t].pc = "extract" /\ tasks'[t].pc = "put") =>
                   tasks'[t].orderRecord.recordCount = tasks[t].recordCount
          /\ \A s \in Sessions :
               orders'[s] # orders[s] =>
                   \E t \in Tasks : /\ tasks[t].pc = "put"
                                    /\ orders'[s] = tasks[t].orderRecord
          /\ \A a \in AnalyzerItems :
               (analyzer[a].pc = "fetch" /\ analyzer'[a].pc = "analyze") =>
                   /\ analyzer'[a].fetchKey = "unknown"
                   /\ analyzer'[a].fetchKey # analyzer[a].sessionId]_vars

\* C39 witness: the order of a session whose only item carries a csid is
\* stored with the csid "unknown" and the recordCount 1, and the snapshot
\* for it has been requested under the key "unknown"
C39_Witness ==
    \E s \in Sessions, a \in AnalyzerItems :
        /\ orders[s] # NoOrder
        /\ orders[s].csid = "unknown"
        /\ orders[s].recordCount = 1
        /\ Cardinality(SessionItems(s)) = 1
        /\ \A i \in SessionItems(s) : RecordCsid(records[i]) = SampleCsid
        /\ analyzer[a].pc = "analyze"
        /\ analyzer[a].sessionId = s
        /\ analyzer[a].fetchKey = "unknown"

====
